---- MODULE Spec2Model ----
(***************************************************************************)
(* Authentication / session subsystem of proj_fastapi:                     *)
(*   app/core/auth.py   JWTTokenManager, create_token_pair                 *)
(*   app/core/redis.py  RedisManager (key-value operations, rate_limit)    *)
(*   app/api/deps.py    get_current_user_token, RateLimiter                *)
(*   app/api/auth.py    login, refresh_token                               *)
(*   app/api/websocket.py authenticate_websocket                           *)
(*                                                                         *)
(* Time is counted in ticks; Res ticks make one second, so that float      *)
(* timestamps (exp, iat) and the int() truncations of the code differ.     *)
(* A dict is a function from its keys; dict.update is UpdateDict.          *)
(***************************************************************************)
EXTENDS Integers, Sequences, FiniteSets, TLC

VARIABLES
    now,        \* wall clock, in ticks
    redis,      \* redis_manager.redis_client: "uninit" (None), "up", "down" (client set, store unreachable)
    users,      \* relational store: user id -> user record
    minted,     \* tokens issued so far, with the function that issued them and its caller data
    blacklist,  \* "blacklist:token:<raw token>" keys: raw token -> expiry tick of the key
    revoked,    \* tokens for which revoke_token returned True while the store was available
    last,       \* outcome of the last token operation
    zsets,      \* "<ns>:rate_limit:<key>:<identifier>" sorted sets: rate key -> set of members
    zexp,       \* expiry tick of each rate-limit key
    rlLog,      \* answers of the rate_limit checks so far
    rlLast,     \* outcome of the last request through the RateLimiter dependency
    sessions,   \* "<ns>:session:<id>" keys: session id -> record
    loginLast,  \* response of the last login call
    settings,   \* feature flags of the configuration
    flowLast,   \* outcome of the last account operation (me, logout, password flows)
    refreshedAt,\* successful refresh calls so far: user, tick and token
    loggedOut,  \* access tokens a successful logout call was made with
    pending,    \* update_session calls between their read and their write
    sessLast,   \* outcome of the last session-manager call
    deleted,    \* session ids a delete_session call or the TTL has removed
    created,    \* arguments of the successful create_session calls: session id -> user, metadata
    active_connections,  \* ConnectionManager.active_connections: user id -> list of connections
    connection_metadata, \* ConnectionManager.connection_metadata: connection -> metadata
    sock,       \* each WebSocket: "new", "open" (accepted), "closed"
    handlers,   \* the websocket_endpoint coroutine of each connection
    wsMsgs,     \* client messages handled so far
    wsLast,     \* what the last websocket step completed
    rooms,      \* "room:<name>:members" sets of the store: room -> members
    regs,       \* successful registrations: email and password as submitted, user id
    regPending, \* register calls between their lookups and User.create
    regLast,    \* response of the last register call or of the login after it
    updLast,    \* response of the last update_user call, with the records before it
    updCount,   \* update_user calls that wrote a record
    admPending, \* administrative requests past their dependencies, before the handler body
    admCount,   \* administrative requests made so far
    admLast,    \* response of the last administrative request
    resetUsed   \* reset tokens a confirm_password_reset has succeeded with

vars == <<now, redis, users, minted, blacklist, revoked, last,
          zsets, zexp, rlLog, rlLast, sessions, loginLast, settings,
          flowLast, refreshedAt, loggedOut, pending, sessLast, deleted, created,
          active_connections, connection_metadata, sock, handlers, wsMsgs, wsLast,
          rooms, regs, regPending, regLast>>

tokVars   == <<minted, blacklist, revoked, last>>
rateVars  == <<zsets, zexp, rlLog, rlLast>>
loginVars == <<sessions, loginLast, settings>>
flowVars  == <<flowLast, refreshedAt, loggedOut>>
sessVars  == <<pending, sessLast, deleted, created>>
wsVars    == <<active_connections, connection_metadata, sock, handlers, wsMsgs, wsLast,
               rooms>>
admVars   == <<admPending, admCount, admLast>>
pwVars    == <<resetUsed>>
regVars   == <<regs, regPending, regLast, updLast, updCount, admVars, pwVars>>
extVars   == <<flowVars, sessVars, wsVars, regVars>>

----------------------------------------------------------------------------
(* Bounds *)

Res        == 2     \* ticks per second
MaxTime    == 3     \* last tick of the clock
MaxMinted  == 1     \* tokens issued by direct calls in one behaviour
AccessTTL  == 2     \* settings.access_token_expire_minutes, in ticks
RefreshTTL == 3     \* settings.refresh_token_expire_days, in ticks
ResetTTL   == 2     \* settings.password_reset_token_expire_hours, in ticks

UserIds == {1, 2, 3, 4}

----------------------------------------------------------------------------
(* Helpers: dicts, time *)

EmptyDict == [k \in {} |-> 0]

Has(d, k) == k \in DOMAIN d

\* dict.update(e): keys of e override keys of d
UpdateDict(d, e) ==
    [k \in (DOMAIN d) \cup (DOMAIN e) |-> IF k \in DOMAIN e THEN e[k] ELSE d[k]]

\* int() of a non-negative time span or timestamp given in ticks: whole seconds
IntSec(t) == t \div Res

----------------------------------------------------------------------------
(* Redis key-value operations used by the token manager *)

StoreOk == redis = "up"

\* keys whose TTL has not run out
LiveKeys(kv, t) == {k \in DOMAIN kv : kv[k] > t}

Purge(kv, t) == [k \in LiveKeys(kv, t) |-> kv[k]]

\* RedisManager.exists: False without client or on error
RedisExists(kv, k) ==
    IF redis = "uninit" THEN FALSE
    ELSE IF redis = "down" THEN FALSE
    ELSE k \in LiveKeys(kv, now)

\* RedisManager.set(key, value, expire): key lives for `expire` seconds
RedisSetOk == redis = "up"

RedisSet(kv, k, expire) ==
    IF RedisSetOk
    THEN [x \in (DOMAIN kv) \cup {k} |-> IF x = k THEN now + expire * Res ELSE kv[x]]
    ELSE kv

----------------------------------------------------------------------------
(* JWT token manager *)

SecretKey == "secret"

\* jwt.encode(to_encode, settings.secret_key, ...)
JwtEncode(payload) == [payload |-> payload, sig |-> SecretKey]

NoTok == [payload |-> EmptyDict, sig |-> "none"]

\* variant: the caller's own keys survive the update
create_access_token_callerwins(data) ==
    JwtEncode(UpdateDict([exp |-> now + AccessTTL, iat |-> now, type |-> "access"], data))

create_access_token(data) ==
    JwtEncode(UpdateDict(data, [exp |-> now + AccessTTL, iat |-> now, type |-> "access"]))

create_refresh_token(data) ==
    JwtEncode(UpdateDict(data, [exp |-> now + RefreshTTL, iat |-> now, type |-> "refresh"]))

create_password_reset_token(email) ==
    JwtEncode([email |-> email, exp |-> now + ResetTTL, iat |-> now, type |-> "password_reset"])

\* jwt.decode: signature check, then the library's own exp validation on
\* whole seconds; TRUE when it raises JWTError
JwtDecodeFails(tok) ==
    \/ tok.sig # SecretKey
    \/ /\ Has(tok.payload, "exp")
       /\ IntSec(tok.payload["exp"]) < IntSec(now)

\* variant: no expiry comparison of its own after jwt.decode
verify_token_noexpcheck(tok) ==
    IF JwtDecodeFails(tok) THEN FALSE
    ELSE IF ~Has(tok.payload, "exp") THEN FALSE
    ELSE TRUE

\* verify_token: TRUE when the payload is returned, FALSE for None
verify_token(tok) ==
    IF JwtDecodeFails(tok) THEN FALSE
    ELSE IF ~Has(tok.payload, "exp") THEN FALSE
    ELSE IF tok.payload["exp"] < now THEN FALSE
    ELSE TRUE

is_token_revoked(tok) == RedisExists(blacklist, tok)

\* verify_token_not_revoked: TRUE when it raises AuthenticationError
verify_token_not_revoked_raises(tok) == is_token_revoked(tok)

\* create_token_pair(user_id, additional_data): the two tokens it returns
create_token_pair(user_id, additional_data) ==
    [access_token  |-> create_access_token(UpdateDict([sub |-> user_id], additional_data)),
     refresh_token |-> create_refresh_token([sub |-> user_id, type |-> "refresh"])]

\* the claims login and refresh put into the access token
IdentityClaims(u) ==
    [email |-> users[u].email, username |-> users[u].username,
     is_superuser |-> users[u].is_superuser]

PairMinted(user_id, additional_data) ==
    LET pair == create_token_pair(user_id, additional_data) IN
    {[tok |-> pair.access_token, by |-> "access",
      data |-> UpdateDict([sub |-> user_id], additional_data)],
     [tok |-> pair.refresh_token, by |-> "refresh",
      data |-> [sub |-> user_id, type |-> "refresh"]]}

----------------------------------------------------------------------------
(* Inputs of the token operations *)

\* caller data handed to create_access_token / create_refresh_token: with or
\* without a `type` key of its own
AccessData  == {[sub |-> 1], [sub |-> 1, type |-> "refresh"]}
RefreshData == {[sub |-> 1, type |-> "refresh"], [sub |-> 1, type |-> "access"]}

MintedToks == {m.tok : m \in minted}

\* a token signed with another key: access type, not expired within the run
ForgedTok ==
    [payload |-> [sub |-> 1, type |-> "access", iat |-> 0, exp |-> MaxTime + Res],
     sig |-> "forged"]

\* validly signed tokens that carry no exp claim
NoExpToks == {JwtEncode([sub |-> 1, type |-> ty]) : ty \in {"access", "refresh"}}

\* tokens a client can present
Presentable == MintedToks \cup {ForgedTok} \cup NoExpToks

Outcome(op, tok, ok, detail) ==
    [op |-> op, tok |-> tok, ok |-> ok, detail |-> detail,
     revoked |-> is_token_revoked(tok), storeOk |-> StoreOk]

NoOutcome ==
    [op |-> "none", tok |-> NoTok, ok |-> FALSE, detail |-> "",
     revoked |-> FALSE, storeOk |-> FALSE]

NoLogin ==
    [status |-> 0, detail |-> "", user |-> 0, pwOk |-> FALSE, active |-> FALSE,
     tokens |-> {}, session_id |-> 0]

\* the flags the flows read from the configuration
SettingsSpace ==
    [feature_email_verification : BOOLEAN]

NoFlow ==
    [op |-> "none", tok |-> NoTok, ok |-> FALSE, status |-> 0, detail |-> "",
     user |-> 0, sid |-> 0, storeOk |-> FALSE, dbOk |-> FALSE,
     issuedAs |-> {}, fresh |-> FALSE, revoked |-> FALSE, active |-> FALSE,
     refreshes |-> 0, loggedOut |-> FALSE,
     sessionAbsent |-> FALSE, sessionGone |-> FALSE, stateSame |-> FALSE,
     tokValid |-> FALSE, tokType |-> "", pwValid |-> FALSE, curOk |-> FALSE,
     samePw |-> FALSE, credSame |-> FALSE, newVerifies |-> FALSE, oldVerifies |-> FALSE,
     usedBefore |-> FALSE]

NoSess ==
    [op |-> "none", sid |-> 0, ok |-> FALSE, storeOk |-> FALSE,
     found |-> FALSE, keys |-> {}, wasPresent |-> FALSE, absentAfter |-> FALSE,
     storeSame |-> FALSE, seconds |-> 0, merged |-> FALSE, expirySame |-> FALSE]

\* the WebSocket objects of the run; each is handed to websocket_endpoint once
Conns == {"c1", "c2", "c3"}

NoConn == "none"

\* authenticate_websocket returned None
NoUser == [id |-> 0, email |-> "", username |-> "", is_active |-> FALSE]

\* a websocket_endpoint coroutine that has not started: the user it
\* authenticated, the calls in progress (innermost last), the calls still to
\* make for the current step of the endpoint, the message being handled and
\* what was delivered while handling it
NoHandler ==
    [pc |-> "init", user |-> NoUser, stack |-> <<>>, todo |-> <<>>,
     req |-> "none", log |-> {}, member_ids |-> {}, start |-> {}]

NoReg ==
    [op |-> "none", status |-> 0, detail |-> "", email |-> "", password |-> "",
     emailTaken |-> FALSE, usernameTaken |-> FALSE, pwValid |-> FALSE, dbOk |-> FALSE,
     created |-> FALSE, authAs |-> 0, storeOk |-> FALSE]

NoAdm ==
    [op |-> "none", caller |-> 0, callerSuper |-> FALSE, user_id |-> 0, status |-> 0,
     detail |-> "", same |-> FALSE]

NoUpd ==
    [op |-> "none", caller |-> 0, callerSuper |-> FALSE, user_id |-> 0, fields |-> {},
     status |-> 0, detail |-> "", passes |-> FALSE, before |-> <<>>]

\* the chat rooms clients name
Rooms == {"lobby"}

NoRlOutcome ==
    [op |-> "none", key |-> <<>>, tier |-> [limit |-> 0, window |-> 0], allowed |-> FALSE,
     outcome |-> "", storeOk |-> FALSE, deniedBefore |-> FALSE, elapsed |-> -1]

----------------------------------------------------------------------------
(* Users (relational store) *)

NoHash == [pw |-> "", salt |-> 0]     \* hashed_password is NULL (OAuth user)

\* PasswordManager.verify_password: any failure of the hasher is False
verify_password(plain, hashed) == hashed # NoHash /\ hashed.pw = plain

UserRec(email, username, pw, active, super) ==
    [email |-> email, username |-> username, full_name |-> "", hashed_password |-> pw,
     is_active |-> active, is_superuser |-> super, email_verified |-> TRUE,
     updated_at |-> 0, last_login_at |-> -1]

\* user 1 is an active user, user 2 a deactivated one, user 3 an active
\* OAuth user without a password, user 4 an active superuser
InitUsers ==
    [u \in UserIds |->
        IF u = 1 THEN UserRec("a@x", "alice", [pw |-> "pw1", salt |-> 1], TRUE, FALSE)
        ELSE IF u = 2 THEN UserRec("b@x", "bob", [pw |-> "pw2", salt |-> 2], FALSE, FALSE)
        ELSE IF u = 3 THEN UserRec("c@x", "carol", NoHash, TRUE, FALSE)
        ELSE UserRec("d@x", "dave", [pw |-> "pw4", salt |-> 4], TRUE, TRUE)]

----------------------------------------------------------------------------
(* Environment: clock and store availability *)

\* the clock advances one tick; Redis drops the keys whose TTL has run out
Tick ==
    /\ now < MaxTime
    /\ now' = now + 1
    /\ blacklist' = Purge(blacklist, now + 1)
    /\ zexp' = Purge(zexp, now + 1)
    /\ zsets' = [k \in LiveKeys(zexp, now + 1) |-> zsets[k]]
    /\ sessions' = [k \in {s \in DOMAIN sessions : sessions[s].expires > now + 1} |-> sessions[k]]
    /\ deleted' = deleted \cup {s \in DOMAIN sessions : sessions[s].expires <= now + 1}
    /\ last' = NoOutcome
    /\ loginLast' = NoLogin
    /\ flowLast' = NoFlow
    /\ sessLast' = NoSess
    /\ UNCHANGED <<wsVars, regVars, redis, users, minted, revoked, rlLog, rlLast, settings,
                   refreshedAt, loggedOut, pending, created>>

\* init_redis at startup: the client is created
RedisInitialize ==
    /\ redis = "uninit"
    /\ redis' = "up"
    /\ last' = NoOutcome
    /\ UNCHANGED <<now, users, minted, blacklist, revoked, rateVars, loginVars, extVars>>

\* the store becomes unreachable: every command raises
RedisGoesDown ==
    /\ redis = "up"
    /\ redis' = "down"
    /\ last' = NoOutcome
    /\ UNCHANGED <<now, users, minted, blacklist, revoked, rateVars, loginVars, extVars>>

RedisComesBack ==
    /\ redis = "down"
    /\ redis' = "up"
    /\ last' = NoOutcome
    /\ UNCHANGED <<now, users, minted, blacklist, revoked, rateVars, loginVars, extVars>>

----------------------------------------------------------------------------
(* Token operations *)

MintAccess(data) ==
    /\ Cardinality(minted) < MaxMinted
    /\ minted' = minted \cup {[tok |-> create_access_token(data), by |-> "access", data |-> data]}
    /\ last' = NoOutcome
    /\ UNCHANGED <<now, redis, users, blacklist, revoked, rateVars, loginVars, extVars>>

MintRefresh(data) ==
    /\ Cardinality(minted) < MaxMinted
    /\ minted' = minted \cup {[tok |-> create_refresh_token(data), by |-> "refresh", data |-> data]}
    /\ last' = NoOutcome
    /\ UNCHANGED <<now, redis, users, blacklist, revoked, rateVars, loginVars, extVars>>

MintReset(email) ==
    /\ Cardinality(minted) < MaxMinted
    /\ minted' = minted \cup {[tok |-> create_password_reset_token(email),
                               by |-> "password_reset", data |-> [email |-> email]]}
    /\ last' = NoOutcome
    /\ UNCHANGED <<now, redis, users, blacklist, revoked, rateVars, loginVars, extVars>>

TypeIs(tok, ty) == Has(tok.payload, "type") /\ tok.payload["type"] = ty

VerifyToken(tok) ==
    /\ last' = Outcome("verify", tok, verify_token(tok), "")
    /\ UNCHANGED <<now, redis, users, minted, blacklist, revoked, rateVars, loginVars, extVars>>

\* variant: the type claim is not compared
verify_password_reset_token_notype(tok) ==
    IF ~verify_token(tok) THEN FALSE
    ELSE Has(tok.payload, "email")

\* verify_password_reset_token: TRUE when an email is returned, FALSE for None
verify_password_reset_token(tok) ==
    IF ~verify_token(tok) THEN FALSE
    ELSE IF ~TypeIs(tok, "password_reset") THEN FALSE
    ELSE Has(tok.payload, "email")

VerifyPasswordResetToken(tok) ==
    /\ last' = Outcome("reset", tok, verify_password_reset_token(tok), "")
    /\ UNCHANGED <<now, redis, users, minted, blacklist, revoked, rateVars, loginVars, extVars>>

\* get_current_user_token: detail of the 401 it raises, or "ok"
get_current_user_token(tok) ==
    IF verify_token_not_revoked_raises(tok) THEN "Token has been revoked"
    ELSE IF ~verify_token(tok) THEN "Invalid token"
    ELSE IF ~TypeIs(tok, "access") THEN "Invalid token type"
    ELSE "ok"

GetCurrentUserToken(tok) ==
    /\ last' = Outcome("http", tok, get_current_user_token(tok) = "ok", get_current_user_token(tok))
    /\ UNCHANGED <<now, redis, users, minted, blacklist, revoked, rateVars, loginVars, extVars>>

\* authenticate_websocket: close reason, or "ok" when a user object is returned
authenticate_websocket(tok) ==
    IF ~verify_token(tok) THEN "Invalid token"
    ELSE IF ~TypeIs(tok, "access") THEN "Invalid token type"
    ELSE IF ~Has(tok.payload, "sub") THEN "Authentication failed"
    ELSE "ok"

AuthenticateWebsocket(tok) ==
    /\ last' = Outcome("ws", tok, authenticate_websocket(tok) = "ok", authenticate_websocket(tok))
    /\ UNCHANGED <<now, redis, users, minted, blacklist, revoked, rateVars, loginVars, extVars>>

\* refresh_token: detail of the 401 it raises, or "ok"; dbOk is FALSE when
\* User.get raises
refresh_token(tok, dbOk) ==
    IF ~verify_token(tok) THEN "Invalid refresh token"
    ELSE IF ~TypeIs(tok, "refresh") THEN "Invalid token type"
    ELSE IF ~Has(tok.payload, "sub") THEN "Token refresh failed"
    ELSE IF ~dbOk THEN "Token refresh failed"
    ELSE IF tok.payload["sub"] \notin DOMAIN users \/ ~users[tok.payload["sub"]].is_active
         THEN "User not found or inactive"
    ELSE "ok"

\* variant: a successful refresh puts the access tokens issued to the user
\* before it on the revocation list
RefreshBlacklist_cascade(tok) ==
    LET old == {m.tok : m \in {x \in minted : x.by = "access"
                                              /\ x.tok.payload["sub"] = tok.payload["sub"]
                                              /\ x.tok.payload["exp"] > now}}
    IN  [t \in (DOMAIN blacklist) \cup old |->
            IF t \in old THEN t.payload["exp"] ELSE blacklist[t]]

\* the revocation list after a successful refresh: refresh_token writes
\* nothing to it
RefreshBlacklist(tok) == blacklist

\* what one call of the refresh endpoint does to the stored state; cap
\* bounds the tokens issued so far
RefreshEffect(tok, dbOk, cap) ==
    LET detail == refresh_token(tok, dbOk) IN
    /\ detail = "ok" => Cardinality(minted) <= cap
    /\ minted' = IF detail = "ok"
                 THEN minted \cup PairMinted(tok.payload["sub"], IdentityClaims(tok.payload["sub"]))
                 ELSE minted
    /\ blacklist' = IF detail = "ok" THEN RefreshBlacklist(tok) ELSE blacklist
    /\ refreshedAt' = IF detail = "ok"
                      THEN refreshedAt \cup {[sub |-> tok.payload["sub"], at |-> now,
                                             tok |-> tok]}
                      ELSE refreshedAt

RefreshToken(tok, dbOk) ==
    /\ RefreshEffect(tok, dbOk, MaxMinted)
    /\ last' = Outcome("refresh", tok, refresh_token(tok, dbOk) = "ok", refresh_token(tok, dbOk))
    /\ UNCHANGED <<wsVars, regVars, now, redis, users, revoked, rateVars, loginVars,
                   flowLast, loggedOut, sessVars>>

\* remaining lifetime in whole seconds, as revoke_token computes it
RevokeTtl(tok) == IntSec(tok.payload["exp"] - now)

\* revoke_token: its return value
revoke_token(tok) ==
    IF ~verify_token(tok) THEN FALSE
    ELSE IF tok.payload["exp"] = 0 THEN FALSE
    ELSE IF RevokeTtl(tok) <= 0 THEN TRUE
    ELSE RedisSetOk

\* what revoke_token does to the stored state
RevokeEffect(tok) ==
    /\ blacklist' = IF verify_token(tok) /\ tok.payload["exp"] # 0 /\ RevokeTtl(tok) > 0
                    THEN RedisSet(blacklist, tok, RevokeTtl(tok))
                    ELSE blacklist
    /\ revoked' = IF revoke_token(tok) /\ StoreOk THEN revoked \cup {tok} ELSE revoked

RevokeToken(tok) ==
    /\ last' = Outcome("revoke", tok, revoke_token(tok), "")
    /\ RevokeEffect(tok)
    /\ UNCHANGED <<now, redis, users, minted, rateVars, loginVars, extVars>>

----------------------------------------------------------------------------
(* Specification of the token manager and the entry points that use it *)

\* the state at startup apart from the user records
InitStores ==
    /\ now = 0
    /\ redis = "uninit"
    /\ minted = {}
    /\ blacklist = EmptyDict
    /\ revoked = {}
    /\ last = NoOutcome
    /\ zsets = EmptyDict
    /\ zexp = EmptyDict
    /\ rlLog = <<>>
    /\ rlLast = NoRlOutcome
    /\ sessions = EmptyDict
    /\ loginLast = NoLogin
    /\ settings \in SettingsSpace
    /\ flowLast = NoFlow
    /\ refreshedAt = {}
    /\ loggedOut = {}
    /\ pending = {}
    /\ sessLast = NoSess
    /\ deleted = {}
    /\ created = EmptyDict
    /\ active_connections = EmptyDict
    /\ connection_metadata = EmptyDict
    /\ sock = [c \in Conns |-> "new"]
    /\ handlers = [c \in Conns |-> NoHandler]
    /\ wsMsgs = 0
    /\ wsLast = {}
    /\ rooms = [r \in Rooms |-> {}]
    /\ regs = {}
    /\ regPending = {}
    /\ regLast = NoReg
    /\ updLast = NoUpd
    /\ updCount = 0
    /\ admPending = {}
    /\ admCount = 0
    /\ admLast = NoAdm
    /\ resetUsed = {}

InitCommon == InitStores /\ users = InitUsers

InitToken == InitCommon /\ settings.feature_email_verification = FALSE

NextToken ==
    \/ Tick
    \/ RedisInitialize
    \/ RedisGoesDown
    \/ RedisComesBack
    \/ \E data \in AccessData : MintAccess(data)
    \/ \E data \in RefreshData : MintRefresh(data)
    \/ MintReset("a@x")
    \/ \E tok \in Presentable : VerifyToken(tok)
    \/ \E tok \in Presentable : VerifyPasswordResetToken(tok)
    \/ \E tok \in Presentable : GetCurrentUserToken(tok)
    \/ \E tok \in Presentable : AuthenticateWebsocket(tok)
    \/ \E tok \in Presentable, dbOk \in BOOLEAN : RefreshToken(tok, dbOk)
    \/ \E tok \in Presentable : RevokeToken(tok)

SpecToken == InitToken /\ [][NextToken]_vars

----------------------------------------------------------------------------
(* Properties of the token manager *)

\* the functions that issued a given raw token
MintedBy(tok) == {m.by : m \in {x \in minted : x.tok = tok}}

\* C1: a token issued by create_access_token, create_refresh_token or
\* create_password_reset_token is accepted only where its own type is
\* required: the access-protected entry points accept only tokens issued as
\* access tokens, the refresh flow only tokens issued as refresh tokens,
\* verify_password_reset_token only tokens issued as reset tokens, whatever
\* `type` key the caller data carried.
C1_TypeSeparation ==
    /\ (last.op \in {"http", "ws"} /\ last.ok) => MintedBy(last.tok) \subseteq {"access"}
    /\ (last.op = "refresh" /\ last.ok) => MintedBy(last.tok) \subseteq {"refresh"}
    /\ (last.op = "reset" /\ last.ok) => MintedBy(last.tok) \subseteq {"password_reset"}

\* an access token whose caller data said type=refresh was refused by refresh
C1_Witness ==
    /\ last.op = "refresh"
    /\ last.detail = "Invalid token type"
    /\ \E m \in minted : /\ m.tok = last.tok
                          /\ m.by = "access"
                          /\ Has(m.data, "type")
                          /\ m.data["type"] = "refresh"

\* C2: verify_token returns the payload only for a validly signed token with
\* an exp claim that is not earlier than now; a validly signed token that is
\* expired or has no exp claim is reported invalid.
C2_VerifyExpiry ==
    last.op = "verify" =>
        /\ last.ok => /\ last.tok.sig = SecretKey
                      /\ Has(last.tok.payload, "exp")
                      /\ last.tok.payload["exp"] >= now
        /\ (last.tok.sig = SecretKey /\ ~Has(last.tok.payload, "exp")) => ~last.ok

\* a validly signed token that expired within the current second was refused
C2_Witness ==
    /\ last.op = "verify"
    /\ ~last.ok
    /\ last.tok.sig = SecretKey
    /\ Has(last.tok.payload, "exp")
    /\ last.tok.payload["exp"] < now
    /\ IntSec(last.tok.payload["exp"]) = IntSec(now)

\* C3: once revoke_token has returned True for a token that verified, with
\* the store available, is_token_revoked stays true up to the token's exp.
C3_RevokedUntilExp ==
    \A tok \in revoked :
        (StoreOk /\ now <= tok.payload["exp"]) => is_token_revoked(tok)

\* C4: a token that is blacklisted at the time of the call is accepted by
\* none of get_current_user_token, authenticate_websocket and refresh.
C4_RevokedNeverAccepted ==
    (last.op \in {"http", "ws", "refresh"} /\ last.revoked) => ~last.ok

\* C5: when the store is uninitialised or unreachable during the blacklist
\* check, get_current_user_token does not authenticate the token.
C5_BlacklistFailsClosed ==
    (last.op = "http" /\ ~last.storeOk) => ~last.ok

----------------------------------------------------------------------------
(* Rate limiter: RedisManager.rate_limit and the RateLimiter dependency *)

RlMaxTime   == 6    \* last tick of the clock in the rate-limit specification
MaxRecorded == 4    \* recorded (allowed) requests in one behaviour
StrictLimit == 1    \* rate_limit_strict.requests, scaled
NormalLimit == 2    \* rate_limit_normal.requests, scaled
RlWindow    == 2    \* window of both tiers in seconds, scaled

Tiers == {[limit |-> StrictLimit, window |-> RlWindow],
          [limit |-> NormalLimit, window |-> RlWindow]}

Clients == {"ip1"}

\* f"{settings.cache_namespace}:rate_limit:{key}:{identifier}"
RateKey(key, identifier) == <<"rate_limit", key, identifier>>

\* ZREMRANGEBYSCORE key lo hi: both ends inclusive
ZRemRangeByScore(z, lo, hi) == {m \in z : ~(lo <= m /\ m <= hi)}

\* variant: the request is added before the entries are counted, so a
\* denied request is recorded too
RateScript_addfirst(z, window, limit, sec) ==
    LET z1 == ZRemRangeByScore(z, 0, sec - window) \cup {sec}
        current == Cardinality(z1)
    IN  IF current <= limit
        THEN [zset |-> z1, expire |-> TRUE,
              ret |-> <<1, limit - current, sec + window>>]
        ELSE [zset |-> z1, expire |-> TRUE,
              ret |-> <<0, 0, sec + window>>]

\* the Lua script: z is the sorted set under the key (members are the
\* request times in whole seconds; ZADD key now now adds the member `now`)
RateScript(z, window, limit, sec) ==
    LET z1 == ZRemRangeByScore(z, 0, sec - window)
        current == Cardinality(z1)
    IN  IF current < limit
        THEN [zset |-> z1 \cup {sec}, expire |-> TRUE,
              ret |-> <<1, limit - current - 1, sec + window>>]
        ELSE [zset |-> z1, expire |-> FALSE,
              ret |-> <<0, 0, sec + window>>]

ZGet(k) == IF k \in DOMAIN zsets THEN zsets[k] ELSE {}

\* rate_limit: (allowed, remaining, reset_time)
rate_limit(key, limit, window, identifier) ==
    IF redis # "up" THEN <<TRUE, limit, 0>>
    ELSE LET r == RateScript(ZGet(RateKey(key, identifier)), window, limit, IntSec(now)).ret
         IN  <<r[1] = 1, r[2], r[3]>>

\* the store after the script has run (an empty sorted set is no key)
ZsetsAfter(k, window, limit) ==
    LET r == RateScript(ZGet(k), window, limit, IntSec(now))
        keys == IF r.zset = {} THEN (DOMAIN zsets) \ {k} ELSE (DOMAIN zsets) \cup {k}
    IN  [x \in keys |-> IF x = k THEN r.zset ELSE zsets[x]]

ZexpAfter(k, window, limit) ==
    LET r == RateScript(ZGet(k), window, limit, IntSec(now))
        keys == IF r.zset = {} THEN (DOMAIN zexp) \ {k} ELSE (DOMAIN zexp) \cup {k}
    IN  [x \in keys |-> IF x = k /\ r.expire THEN now + window * Res ELSE zexp[x]]

NoLog == [allowedAt |-> <<>>, by |-> <<>>, tiers |-> {}, denied |-> FALSE]

LogOf(k) == IF k \in DOMAIN rlLog THEN rlLog[k] ELSE NoLog

\* the time (tick) of the most recent recorded request of a key, -1 if none
LastRecorded(k) ==
    IF LogOf(k).allowedAt = <<>> THEN -1
    ELSE LogOf(k).allowedAt[Len(LogOf(k).allowedAt)]

\* bookkeeping of the answers given with the store available
LogAfter(k, tier, allowed) ==
    LET old == LogOf(k)
        new == [allowedAt |-> IF allowed THEN Append(old.allowedAt, now) ELSE old.allowedAt,
                by |-> IF allowed THEN Append(old.by, tier) ELSE old.by,
                tiers |-> old.tiers \cup {tier},
                denied |-> ~allowed]
    IN  [x \in (DOMAIN rlLog) \cup {k} |-> IF x = k THEN new ELSE rlLog[x]]

RlOutcome(op, k, tier, allowed, outcome) ==
    [op |-> op, key |-> k, tier |-> tier, allowed |-> allowed, outcome |-> outcome,
     storeOk |-> StoreOk,
     deniedBefore |-> LogOf(k).denied,
     elapsed |-> IF LastRecorded(k) = -1 THEN -1 ELSE now - LastRecorded(k)]

\* the effect of one rate_limit call on the store and on the bookkeeping
RateLimitEffect(k, tier, allowed) ==
    IF redis = "up"
    THEN /\ zsets' = ZsetsAfter(k, tier.window, tier.limit)
         /\ zexp' = ZexpAfter(k, tier.window, tier.limit)
         /\ rlLog' = LogAfter(k, tier, allowed)
    ELSE UNCHANGED <<zsets, zexp, rlLog>>

\* a direct call of redis_manager.rate_limit
RateLimitCheck(tier, ip) ==
    LET k == RateKey("api_requests", ip)
        res == rate_limit("api_requests", tier.limit, tier.window, ip)
    IN  /\ Len(LogOf(k).allowedAt) < MaxRecorded
        /\ rlLast' = RlOutcome("check", k, tier, res[1], "returned")
        /\ RateLimitEffect(k, tier, res[1])
        /\ UNCHANGED <<now, redis, users, tokVars, loginVars, extVars>>

\* a request through the RateLimiter dependency: get_redis_client is
\* resolved first and raises RuntimeError without a client
RateLimiterCall(tier, ip) ==
    LET k == RateKey("api_requests", ip)
        res == rate_limit("api_requests", tier.limit, tier.window, ip)
    IN  /\ Len(LogOf(k).allowedAt) < MaxRecorded
        /\ IF redis = "uninit"
           THEN /\ rlLast' = RlOutcome("request", k, tier, FALSE, "error")
                /\ UNCHANGED <<zsets, zexp, rlLog>>
           ELSE /\ rlLast' = RlOutcome("request", k, tier, res[1],
                                       IF res[1] THEN "pass" ELSE "429")
                /\ RateLimitEffect(k, tier, res[1])
        /\ UNCHANGED <<now, redis, users, tokVars, loginVars, extVars>>

TickRate ==
    /\ now < RlMaxTime
    /\ now' = now + 1
    /\ zexp' = Purge(zexp, now + 1)
    /\ zsets' = [k \in LiveKeys(zexp, now + 1) |-> zsets[k]]
    /\ rlLast' = NoRlOutcome
    /\ UNCHANGED <<redis, users, tokVars, rlLog, loginVars, extVars>>

InitRate == InitCommon /\ settings.feature_email_verification = FALSE

NextRate ==
    \/ TickRate
    \/ RedisInitialize
    \/ RedisGoesDown
    \/ RedisComesBack
    \/ \E tier \in Tiers, ip \in Clients : RateLimitCheck(tier, ip)
    \/ \E tier \in Tiers, ip \in Clients : RateLimiterCall(tier, ip)

SpecRate == InitRate /\ [][NextRate]_vars

----------------------------------------------------------------------------
(* Sessions and login *)

MaxSessions == 2    \* sessions created in one behaviour
SessionTTL  == 2    \* settings.redis_session_expire in seconds, scaled

SessionIds == 1..MaxSessions

\* secrets.token_urlsafe(32): an identifier that was never used
FreshSessionIds == SessionIds \ ((DOMAIN sessions) \cup deleted)

\* variant: the metadata is left out of the record
SessionData_nometa(user_id, data) ==
    [user_id |-> user_id, created_at |-> now]

\* SessionManager.create_session: {"user_id": ..., "created_at": ..., **data}
SessionData(user_id, data) ==
    UpdateDict([user_id |-> user_id, created_at |-> now], data)

\* SessionManager.create_session: the record written under the session key
SessionRecord(user_id, data) ==
    [data |-> SessionData(user_id, data),
     expires |-> now + SessionTTL * Res]

\* User.get_by_email / User.get_by_username: id of the matching user, 0 for None
get_by_email(email) ==
    IF \E u \in DOMAIN users : users[u].email = email
    THEN CHOOSE u \in DOMAIN users : users[u].email = email
    ELSE 0

get_by_username(username) ==
    IF \E u \in DOMAIN users : users[u].username = username
    THEN CHOOSE u \in DOMAIN users : users[u].username = username
    ELSE 0

\* login: the user the identifier resolves to (email first, then username)
LoginUser(identifier) ==
    IF get_by_email(identifier) # 0 THEN get_by_email(identifier)
    ELSE get_by_username(identifier)

\* variant: a wrong password gets a message of its own
login_detail_revealing(identifier, password, dbOk) ==
    LET u == LoginUser(identifier) IN
    IF ~dbOk THEN "Login failed"
    ELSE IF u = 0 THEN "Invalid credentials"
    ELSE IF ~verify_password(password, users[u].hashed_password) THEN "Incorrect password"
    ELSE IF ~users[u].is_active THEN "Account is deactivated"
    ELSE IF settings.feature_email_verification /\ ~users[u].email_verified
         THEN "Email not verified"
    ELSE IF ~RedisSetOk THEN "Login failed"
    ELSE "ok"

\* variant: the account status is looked at before the password
login_detail_statusfirst(identifier, password, dbOk) ==
    LET u == LoginUser(identifier) IN
    IF ~dbOk THEN "Login failed"
    ELSE IF u = 0 THEN "Invalid credentials"
    ELSE IF ~users[u].is_active THEN "Account is deactivated"
    ELSE IF ~verify_password(password, users[u].hashed_password) THEN "Invalid credentials"
    ELSE IF settings.feature_email_verification /\ ~users[u].email_verified
         THEN "Email not verified"
    ELSE IF ~RedisSetOk THEN "Login failed"
    ELSE "ok"

\* variant: the result of the session write is not looked at
login_detail_storeignored(identifier, password, dbOk) ==
    LET u == LoginUser(identifier) IN
    IF ~dbOk THEN "Login failed"
    ELSE IF u = 0 THEN "Invalid credentials"
    ELSE IF ~verify_password(password, users[u].hashed_password) THEN "Invalid credentials"
    ELSE IF ~users[u].is_active THEN "Account is deactivated"
    ELSE IF settings.feature_email_verification /\ ~users[u].email_verified
         THEN "Email not verified"
    ELSE "ok"

\* login: detail of the HTTPException it raises, or "ok"; dbOk is FALSE when
\* the user lookup raises
login_detail(identifier, password, dbOk) ==
    LET u == LoginUser(identifier) IN
    IF ~dbOk THEN "Login failed"
    ELSE IF u = 0 THEN "Invalid credentials"
    ELSE IF ~verify_password(password, users[u].hashed_password) THEN "Invalid credentials"
    ELSE IF ~users[u].is_active THEN "Account is deactivated"
    ELSE IF settings.feature_email_verification /\ ~users[u].email_verified
         THEN "Email not verified"
    ELSE IF ~RedisSetOk THEN "Login failed"
    ELSE "ok"

login_status(detail) ==
    IF detail = "ok" THEN 200
    ELSE IF detail = "Login failed" THEN 500
    ELSE 401

\* login reaches `user.update(db, last_login_at=user.updated_at)`
LoginPassesChecks(identifier, password, dbOk) ==
    login_detail(identifier, password, dbOk) = "ok"
    \/ (login_detail(identifier, password, dbOk) = "Login failed" /\ dbOk)

\* what login does to the stored state; sid is the identifier
\* create_session generates (0 when login does not get that far)
LoginEffect(identifier, password, dbOk, sid) ==
    LET u == LoginUser(identifier)
        detail == login_detail(identifier, password, dbOk)
        issued == IF detail = "ok" THEN PairMinted(u, IdentityClaims(u)) ELSE {}
    IN  /\ detail = "ok" => Cardinality(minted) <= MaxMinted
        /\ sid \in (IF detail = "ok" THEN FreshSessionIds ELSE {0})
        /\ sessions' = IF detail = "ok"
                       THEN [x \in (DOMAIN sessions) \cup {sid} |->
                               IF x = sid
                               THEN SessionRecord(u, [ip |-> "unknown",
                                                      user_agent |-> "unknown",
                                                      login_method |-> "password"])
                               ELSE sessions[x]]
                       ELSE sessions
        /\ minted' = minted \cup issued
        /\ users' = IF LoginPassesChecks(identifier, password, dbOk)
                    THEN [users EXCEPT ![u].last_login_at = users[u].updated_at,
                                       ![u].updated_at = now]
                    ELSE users

Login(identifier, password, dbOk) ==
    LET u == LoginUser(identifier)
        detail == login_detail(identifier, password, dbOk)
        issued == IF detail = "ok" THEN PairMinted(u, IdentityClaims(u)) ELSE {}
    IN  /\ \E sid \in SessionIds \cup {0} :
              /\ LoginEffect(identifier, password, dbOk, sid)
              /\ loginLast' = [status |-> login_status(detail), detail |-> detail,
                               user |-> IF dbOk THEN u ELSE 0,
                               pwOk |-> dbOk /\ u # 0
                                        /\ verify_password(password, users[u].hashed_password),
                               active |-> dbOk /\ u # 0 /\ users[u].is_active,
                               tokens |-> issued, session_id |-> sid]
        /\ UNCHANGED <<now, redis, blacklist, revoked, last, rateVars, settings, extVars>>

LoginIdentifiers == {"a@x", "b@x", "c@x", "alice", "nobody@x"}
LoginPasswords   == {"pw1", "pw2", "bad"}

InitLogin == InitCommon

NextLogin ==
    \/ Tick
    \/ RedisInitialize
    \/ RedisGoesDown
    \/ RedisComesBack
    \/ \E identifier \in LoginIdentifiers, password \in LoginPasswords, dbOk \in BOOLEAN :
          Login(identifier, password, dbOk)

SpecLogin == InitLogin /\ [][NextLogin]_vars

----------------------------------------------------------------------------
(* Properties of login *)

GenericFailure(r) ==
    /\ r.status = 401
    /\ r.detail = "Invalid credentials"
    /\ r.tokens = {}
    /\ r.session_id = 0

\* C9: a login whose identifier matches no user and a login whose identifier
\* matches a user but whose password does not verify get the same response,
\* 401 "Invalid credentials", and neither gets tokens or a session.
C9_LoginDoesNotRevealWhich ==
    (loginLast.status # 0 /\ loginLast.status # 500 /\ ~loginLast.pwOk)
        => GenericFailure(loginLast)

\* the identifier matched an active user and the password was wrong
C9_Witness ==
    /\ loginLast.status = 401
    /\ loginLast.user # 0
    /\ loginLast.active
    /\ ~loginLast.pwOk
    /\ GenericFailure(loginLast)

\* C10: for an inactive user, login with the correct password is refused with
\* a failure that names the deactivation, login with a wrong password with
\* the generic message; in neither case are tokens or a session created.
C10_PasswordBeforeStatus ==
    (loginLast.status # 0 /\ loginLast.status # 500
     /\ loginLast.user # 0 /\ ~loginLast.active) =>
        /\ loginLast.status = 401
        /\ loginLast.tokens = {}
        /\ loginLast.session_id = 0
        /\ loginLast.pwOk => loginLast.detail = "Account is deactivated"
        /\ ~loginLast.pwOk => loginLast.detail = "Invalid credentials"

\* an inactive user presented a wrong password and got the generic message
C10_Witness ==
    /\ loginLast.status = 401
    /\ loginLast.user # 0
    /\ ~loginLast.active
    /\ ~loginLast.pwOk
    /\ loginLast.detail = "Invalid credentials"

----------------------------------------------------------------------------
(* Properties of the rate limiter *)

\* the keys that were always checked with one and the same tier
SingleTier(k) == Cardinality(LogOf(k).tiers) = 1

TierOf(k) == CHOOSE t \in LogOf(k).tiers : TRUE

\* number of checks answered allowed (store available) in the window that
\* ends with the i-th of them
AllowedInWindow(k, i) ==
    LET at == LogOf(k).allowedAt IN
    Cardinality({j \in 1..i : at[j] > at[i] - TierOf(k).window * Res})

\* C6: for one key checked with a fixed limit and window, the number of
\* checks answered allowed within any trailing window never exceeds the limit.
C6_WindowNeverExceedsLimit ==
    \A k \in DOMAIN rlLog :
        SingleTier(k) =>
            \A i \in 1..Len(rlLog[k].allowedAt) : AllowedInWindow(k, i) <= TierOf(k).limit

\* C7: when an identifier has been denied and a whole window has elapsed since
\* its most recent recorded request, the next check (store available) is allowed.
C7_RecoveryAfterWindow ==
    (/\ rlLast.op \in {"check", "request"}
     /\ rlLast.storeOk
     /\ rlLast.deniedBefore
     /\ rlLast.elapsed >= rlLast.tier.window * Res) => rlLast.allowed

\* a denied identifier was allowed again one window after its last recorded request
C7_Witness ==
    /\ rlLast.op = "check"
    /\ rlLast.storeOk
    /\ rlLast.deniedBefore
    /\ rlLast.elapsed >= rlLast.tier.window * Res
    /\ rlLast.allowed

\* C8: on a storage failure rate_limit answers allowed, and a request through
\* the RateLimiter dependency is let through.
C8_RateLimitFailsOpen ==
    (rlLast.op \in {"check", "request"} /\ ~rlLast.storeOk) =>
        /\ rlLast.op = "check" => rlLast.allowed
        /\ rlLast.op = "request" => rlLast.outcome = "pass"

----------------------------------------------------------------------------
(* Account flows: access-protected endpoints, refresh, logout *)

FlowMaxMinted == 4     \* tokens issued before a refresh may issue two more
FlowMaxTime   == 2     \* last tick of the clock in the account-flow specification
FlowMaxRevoked == 1    \* revoke_token calls that succeed in one behaviour
FlowMaxLogouts == 1    \* tokens used for a successful logout in one behaviour

\* get_current_user: detail of the 401 it raises, or "ok".  The
\* HTTPExceptions raised inside its try block ("User not found", "Inactive
\* user") are caught by `except Exception` and replaced.
get_current_user(tok, dbOk) ==
    IF get_current_user_token(tok) # "ok" THEN get_current_user_token(tok)
    ELSE IF ~Has(tok.payload, "sub") THEN "Could not validate user"
    ELSE IF ~dbOk THEN "Could not validate user"
    ELSE IF tok.payload["sub"] \notin DOMAIN users THEN "Could not validate user"
    ELSE IF ~users[tok.payload["sub"]].is_active THEN "Could not validate user"
    ELSE "ok"

TokUser(tok) ==
    IF Has(tok.payload, "sub") /\ tok.payload["sub"] \in DOMAIN users
    THEN tok.payload["sub"] ELSE 0

\* successful refresh calls for the token's user since the token was issued
RefreshesSince(tok) ==
    Cardinality({r \in refreshedAt : /\ r.sub = TokUser(tok)
                                      /\ Has(tok.payload, "iat")
                                      /\ r.at >= tok.payload["iat"]})

\* SessionManager.get_session: the stored record, or None
get_session(session_id) ==
    IF redis # "up" THEN [found |-> FALSE, data |-> EmptyDict]
    ELSE IF session_id \in DOMAIN sessions /\ sessions[session_id].expires > now
         THEN [found |-> TRUE, data |-> sessions[session_id].data]
    ELSE [found |-> FALSE, data |-> EmptyDict]

\* RedisManager.delete: TRUE when a key was removed
RedisDelete(kv, k) == redis = "up" /\ k \in DOMAIN kv

\* SessionManager.delete_session: the session keys afterwards
delete_session(session_id) ==
    IF RedisDelete(sessions, session_id)
    THEN [k \in (DOMAIN sessions) \ {session_id} |-> sessions[k]]
    ELSE sessions

FlowOutcome(op, tok, dbOk, detail, sid) ==
    [NoFlow EXCEPT !.op = op, !.tok = tok, !.ok = (detail = "ok"),
                   !.status = IF detail = "ok" THEN 200 ELSE 401,
                   !.detail = detail, !.user = TokUser(tok), !.sid = sid,
                   !.storeOk = StoreOk, !.dbOk = dbOk,
                   !.issuedAs = MintedBy(tok),
                   !.fresh = Has(tok.payload, "exp") /\ now <= tok.payload["exp"],
                   !.revoked = tok \in revoked,
                   !.active = TokUser(tok) # 0 /\ users[TokUser(tok)].is_active,
                   !.refreshes = RefreshesSince(tok),
                   !.loggedOut = tok \in loggedOut]

\* GET /me: an access-protected endpoint
Me(tok, dbOk) ==
    /\ flowLast' = FlowOutcome("me", tok, dbOk, get_current_user(tok, dbOk), 0)
    /\ UNCHANGED <<wsVars, regVars, now, redis, users, tokVars, rateVars, loginVars,
                   refreshedAt, loggedOut, sessVars>>

\* variant: the TODO of logout carried out, the token goes on the blacklist
logout_blacklist_revoking(tok) ==
    IF RevokeTtl(tok) > 0 THEN RedisSet(blacklist, tok, RevokeTtl(tok)) ELSE blacklist

\* the revocation list after logout: nothing is added
logout_blacklist(tok) == blacklist

\* POST /logout; session_id 0 stands for no session id
Logout(tok, session_id, dbOk) ==
    LET detail == get_current_user(tok, dbOk)
        after == IF detail = "ok" /\ session_id # 0
                 THEN delete_session(session_id) ELSE sessions
        bl == IF detail = "ok" THEN logout_blacklist(tok) ELSE blacklist
    IN  /\ Cardinality(loggedOut) < FlowMaxLogouts
        /\ sessions' = after
        /\ blacklist' = bl
        /\ deleted' = deleted \cup ((DOMAIN sessions) \ (DOMAIN after))
        /\ loggedOut' = IF detail = "ok" THEN loggedOut \cup {tok} ELSE loggedOut
        /\ flowLast' =
             [FlowOutcome("logout", tok, dbOk, detail, session_id) EXCEPT
                 !.sessionAbsent = redis # "up" \/ session_id \notin DOMAIN after,
                 !.sessionGone = session_id \notin DOMAIN after,
                 !.stateSame = /\ bl = blacklist
                               /\ \A k \in (DOMAIN sessions) \ {session_id} :
                                     k \in DOMAIN after /\ after[k] = sessions[k]
                               /\ session_id = 0 => after = sessions]
        /\ UNCHANGED <<wsVars, regVars, now, redis, users, minted, revoked, last, rateVars,
                       loginLast, settings, refreshedAt, pending, sessLast, created>>

\* POST /users/{user_id}/deactivate by a superuser
FlowLogin(identifier, password) ==
    /\ \E sid \in SessionIds \cup {0} : LoginEffect(identifier, password, TRUE, sid)
    /\ flowLast' = NoFlow
    /\ UNCHANGED <<wsVars, regVars, now, redis, blacklist, revoked, last, rateVars, loginLast, settings,
                   refreshedAt, loggedOut, sessVars>>

FlowRefresh(tok) ==
    /\ RefreshEffect(tok, TRUE, FlowMaxMinted)
    /\ flowLast' = NoFlow
    /\ UNCHANGED <<wsVars, regVars, now, redis, users, revoked, last, rateVars, loginVars,
                   loggedOut, sessVars>>

FlowRevoke(tok) ==
    /\ Cardinality(revoked) < FlowMaxRevoked
    /\ RevokeEffect(tok)
    /\ flowLast' = NoFlow
    /\ UNCHANGED <<wsVars, regVars, now, redis, users, minted, last, rateVars, loginVars,
                   refreshedAt, loggedOut, sessVars>>

TickFlow == now < FlowMaxTime /\ Tick

AccessToks == {m.tok : m \in {x \in minted : x.by = "access"}}

DeactivateUser(caller, user_id) ==
    /\ users[caller].is_superuser /\ users[caller].is_active
    /\ user_id \in DOMAIN users
    /\ user_id # caller
    /\ users' = [users EXCEPT ![user_id].is_active = FALSE, ![user_id].updated_at = now]
    /\ flowLast' = NoFlow
    /\ UNCHANGED <<wsVars, regVars, now, redis, tokVars, rateVars, loginVars,
                   refreshedAt, loggedOut, sessVars>>

InitFlow == InitCommon /\ settings.feature_email_verification = FALSE

NextFlow ==
    \/ TickFlow
    \/ RedisInitialize
    \/ \E password \in {"pw1", "bad"} : FlowLogin("a@x", password)
    \/ \E tok \in MintedToks : FlowRefresh(tok)
    \/ \E tok \in AccessToks : FlowRevoke(tok)
    \/ \E tok \in AccessToks, dbOk \in BOOLEAN : Me(tok, dbOk)
    \/ DeactivateUser(4, 1)

SpecFlow == InitFlow /\ [][NextFlow]_vars

NextLogout ==
    \/ TickFlow
    \/ RedisInitialize
    \/ RedisGoesDown
    \/ RedisComesBack
    \/ \E password \in {"pw1", "bad"} : FlowLogin("a@x", password)
    \/ \E tok \in AccessToks : Me(tok, TRUE)
    \/ \E tok \in AccessToks, sid \in SessionIds \cup {0}, dbOk \in BOOLEAN :
          Logout(tok, sid, dbOk)

SpecLogout == InitFlow /\ [][NextLogout]_vars

\* C11: an access token issued at login or by a refresh is accepted by an
\* access-protected endpoint up to its own exp, however many refreshes
\* succeeded for the user since, as long as it was not revoked and the user
\* is active (and the user lookup works).
C11_RefreshDoesNotCascade ==
    (/\ flowLast.op = "me"
     /\ flowLast.issuedAs = {"access"}
     /\ flowLast.fresh
     /\ ~flowLast.revoked
     /\ flowLast.active
     /\ flowLast.dbOk) => flowLast.ok

\* an access token was accepted after two later refreshes for its user
C11_Witness ==
    /\ flowLast.op = "me"
    /\ flowLast.ok
    /\ flowLast.issuedAs = {"access"}
    /\ flowLast.refreshes >= 2

----------------------------------------------------------------------------
(* Password flows: reset request, reset confirm, change *)

PwMaxResets == 1    \* reset tokens issued in one behaviour

\* PasswordValidator defaults
min_length       == 8
max_length       == 128
min_unique_chars == 6

\* what the validator looks at in a password: its length, the character
\* classes in it, its distinct characters, a deny-listed substring
PwShape(p) ==
    IF p = "Str0ng!pw" THEN [len |-> 9, upper |-> TRUE, lower |-> TRUE, digit |-> TRUE,
                             symbol |-> TRUE, unique |-> 9, common |-> FALSE]
    ELSE IF p = "N3w!Passwd" THEN [len |-> 10, upper |-> TRUE, lower |-> TRUE, digit |-> TRUE,
                                   symbol |-> TRUE, unique |-> 9, common |-> FALSE]
    ELSE IF p = "Qwerty1!x" THEN [len |-> 9, upper |-> TRUE, lower |-> TRUE, digit |-> TRUE,
                                  symbol |-> TRUE, unique |-> 9, common |-> TRUE]
    ELSE IF p = "weakpass" THEN [len |-> 8, upper |-> FALSE, lower |-> TRUE, digit |-> FALSE,
                                 symbol |-> FALSE, unique |-> 6, common |-> FALSE]
    ELSE [len |-> 3, upper |-> FALSE, lower |-> TRUE, digit |-> (p # "bad"),
          symbol |-> FALSE, unique |-> 3, common |-> TRUE]

\* PasswordValidator.validate: is_valid
validate(p) ==
    LET sh == PwShape(p) IN
    /\ ~(sh.len < min_length)
    /\ ~(sh.len > max_length)
    /\ sh.upper
    /\ sh.lower
    /\ sh.digit
    /\ sh.symbol
    /\ ~(sh.unique < min_unique_chars)
    /\ ~sh.common

Salts == {5, 6}

\* PasswordManager.hash_password with the salt the hasher drew
hash_password(p, salt) == [pw |-> p, salt |-> salt]

\* InputSanitizer.sanitize_email: strip().lower()
sanitize_email(email) ==
    IF email = " A@X " THEN "a@x"
    ELSE IF email = "E@x" THEN "e@x"
    ELSE email

GenericResetMessage == "If the email exists, a password reset link has been sent"

\* variant: an unknown email is reported
request_password_reset_telling(email, dbOk) ==
    LET u == get_by_email(sanitize_email(email)) IN
    IF ~dbOk THEN [status |-> 200, message |-> GenericResetMessage]
    ELSE IF u # 0 /\ users[u].is_active
         THEN [status |-> 200, message |-> GenericResetMessage]
    ELSE [status |-> 404, message |-> "User not found"]

\* request_password_reset: its response; dbOk is FALSE when the lookup raises
request_password_reset(email, dbOk) ==
    LET u == get_by_email(sanitize_email(email)) IN
    IF ~dbOk THEN [status |-> 200, message |-> GenericResetMessage]
    ELSE IF u # 0 /\ users[u].is_active
         THEN [status |-> 200, message |-> GenericResetMessage]
    ELSE [status |-> 200, message |-> GenericResetMessage]

\* request_password_reset: the user table afterwards (nothing is written)
request_password_reset_users(email, dbOk) == users

ResetToks == {m.tok : m \in {x \in minted : x.by = "password_reset"}}

RequestPasswordReset(email, dbOk) ==
    LET u == get_by_email(sanitize_email(email))
        resp == request_password_reset(email, dbOk)
        issues == dbOk /\ u # 0 /\ users[u].is_active
    IN  /\ issues => Cardinality(ResetToks) < PwMaxResets
        /\ minted' = IF issues
                     THEN minted \cup {[tok |-> create_password_reset_token(sanitize_email(email)),
                                        by |-> "password_reset",
                                        data |-> [email |-> sanitize_email(email)]]}
                     ELSE minted
        /\ users' = request_password_reset_users(email, dbOk)
        /\ flowLast' = [NoFlow EXCEPT !.op = "reset_request", !.ok = (resp.status = 200),
                                      !.status = resp.status, !.detail = resp.message,
                                      !.user = IF dbOk THEN u ELSE 0, !.dbOk = dbOk,
                                      !.active = dbOk /\ u # 0 /\ users[u].is_active,
                                      !.stateSame =
                                          (request_password_reset_users(email, dbOk) = users)]
        /\ UNCHANGED <<wsVars, regVars, now, redis, blacklist, revoked, last, rateVars, loginVars,
                       refreshedAt, loggedOut, sessVars>>

\* confirm_password_reset: status and detail of its response; dbOk is FALSE
\* when the lookup or the update raises
confirm_password_reset(tok, new_password, dbOk) ==
    IF ~verify_password_reset_token(tok) \/ tok.payload["email"] = ""
    THEN [status |-> 400, detail |-> "Invalid or expired reset token"]
    ELSE IF ~validate(new_password)
    THEN [status |-> 400, detail |-> "Password does not meet requirements"]
    ELSE IF ~dbOk
    THEN [status |-> 500, detail |-> "Password reset failed"]
    ELSE IF get_by_email(tok.payload["email"]) = 0
    THEN [status |-> 400, detail |-> "User not found"]
    ELSE [status |-> 200, detail |-> "Password reset successfully"]

\* user.update(db, hashed_password=...)
SetCredential(u, hashed) ==
    [users EXCEPT ![u].hashed_password = hashed, ![u].updated_at = now]

CredentialsSame(after) ==
    \A u \in DOMAIN users : after[u].hashed_password = users[u].hashed_password

ConfirmPasswordReset(tok, new_password, dbOk) ==
    LET resp == confirm_password_reset(tok, new_password, dbOk)
        u == IF Has(tok.payload, "email") THEN get_by_email(tok.payload["email"]) ELSE 0
    IN  \E salt \in Salts :
          LET after == IF resp.status = 200
                       THEN SetCredential(u, hash_password(new_password, salt))
                       ELSE users
          IN  /\ resp.status = 200 => salt # users[u].hashed_password.salt
              /\ resp.status # 200 => salt = 5
              /\ users' = after
              /\ flowLast' =
                   [NoFlow EXCEPT !.op = "reset_confirm", !.tok = tok,
                                  !.ok = (resp.status = 200), !.status = resp.status,
                                  !.detail = resp.detail, !.user = u, !.dbOk = dbOk,
                                  !.issuedAs = MintedBy(tok),
                                  !.tokValid = verify_token(tok),
                                  !.tokType = IF Has(tok.payload, "type")
                                              THEN tok.payload["type"] ELSE "",
                                  !.pwValid = validate(new_password),
                                  !.credSame = CredentialsSame(after),
                                  !.newVerifies =
                                      u # 0 /\ verify_password(new_password,
                                                               after[u].hashed_password),
                                  !.usedBefore = tok \in resetUsed]
              /\ resetUsed' = IF resp.status = 200 THEN resetUsed \cup {tok} ELSE resetUsed
              /\ UNCHANGED <<wsVars, regs, regPending, regLast, updLast, updCount, admVars,
                             now, redis, tokVars, rateVars, loginVars,
                             refreshedAt, loggedOut, sessVars>>

\* variant: the current password is not verified
change_password_nocurrent(tok, current_password, new_password, dbOk) ==
    IF get_current_user(tok, dbOk) # "ok"
    THEN [status |-> 401, detail |-> get_current_user(tok, dbOk)]
    ELSE IF ~validate(new_password)
    THEN [status |-> 400, detail |-> "Password does not meet requirements"]
    ELSE [status |-> 200, detail |-> "Password changed successfully"]

\* change_password: status and detail of its response
change_password(tok, current_password, new_password, dbOk) ==
    IF get_current_user(tok, dbOk) # "ok"
    THEN [status |-> 401, detail |-> get_current_user(tok, dbOk)]
    ELSE IF ~verify_password(current_password, users[tok.payload["sub"]].hashed_password)
    THEN [status |-> 400, detail |-> "Current password is incorrect"]
    ELSE IF ~validate(new_password)
    THEN [status |-> 400, detail |-> "Password does not meet requirements"]
    ELSE [status |-> 200, detail |-> "Password changed successfully"]

ChangePassword(tok, current_password, new_password, dbOk) ==
    LET resp == change_password(tok, current_password, new_password, dbOk)
        u == TokUser(tok)
    IN  \E salt \in Salts :
          LET after == IF resp.status = 200
                       THEN SetCredential(u, hash_password(new_password, salt))
                       ELSE users
          IN  /\ resp.status = 200 => salt # users[u].hashed_password.salt
              /\ resp.status # 200 => salt = 5
              /\ users' = after
              /\ flowLast' =
                   [NoFlow EXCEPT !.op = "change", !.tok = tok,
                                  !.ok = (resp.status = 200), !.status = resp.status,
                                  !.detail = resp.detail, !.user = u, !.dbOk = dbOk,
                                  !.pwValid = validate(new_password),
                                  !.curOk = u # 0 /\ verify_password(current_password,
                                                        users[u].hashed_password),
                                  !.samePw = (new_password = current_password),
                                  !.credSame = CredentialsSame(after),
                                  !.newVerifies =
                                      u # 0 /\ verify_password(new_password,
                                                               after[u].hashed_password),
                                  !.oldVerifies =
                                      u # 0 /\ verify_password(current_password,
                                                               after[u].hashed_password)]
              /\ UNCHANGED <<wsVars, regVars, now, redis, tokVars, rateVars, loginVars,
                             refreshedAt, loggedOut, sessVars>>

\* a reset token signed with another key
ForgedResetTok ==
    [payload |-> [email |-> "a@x", type |-> "password_reset", iat |-> 0,
                  exp |-> MaxTime + Res],
     sig |-> "forged"]

ResetEmails  == {"a@x", " A@X ", "b@x", "nobody@x"}
NewPasswords == {"Str0ng!pw", "weakpass"}
CurrentPasswords == {"pw1", "Str0ng!pw", "bad"}

InitPassword == InitCommon /\ settings.feature_email_verification = FALSE

NextPassword ==
    \/ Tick
    \/ MintAccess([sub |-> 1, email |-> "a@x"])
    \/ \E email \in ResetEmails, dbOk \in BOOLEAN : RequestPasswordReset(email, dbOk)
    \/ \E tok \in MintedToks \cup {ForgedResetTok}, new_password \in NewPasswords,
          dbOk \in BOOLEAN : ConfirmPasswordReset(tok, new_password, dbOk)
    \/ \E tok \in AccessToks, current_password \in CurrentPasswords,
          new_password \in NewPasswords :
          ChangePassword(tok, current_password, new_password, TRUE)

SpecPassword == InitPassword /\ [][NextPassword]_vars

\* C13: request_password_reset answers every email alike, whether it belongs
\* to an active user, an inactive user or nobody and whether or not the lookup
\* raises: status 200 with the generic message, and no user record changes.
C13_ResetRequestEnumerationSafe ==
    flowLast.op = "reset_request" =>
        /\ flowLast.status = 200
        /\ flowLast.detail = GenericResetMessage
        /\ flowLast.stateSame

\* the email of no user got the generic answer
C13_Witness ==
    /\ flowLast.op = "reset_request"
    /\ flowLast.dbOk
    /\ flowLast.user = 0
    /\ flowLast.status = 200
    /\ flowLast.detail = GenericResetMessage

\* C14: confirm_password_reset changes a stored credential only when the
\* token verifies, has type password_reset and the new password is valid; an
\* access or refresh token never resets a password; every rejection leaves
\* the credentials unchanged.
C14_ResetConfirmGuarded ==
    flowLast.op = "reset_confirm" =>
        /\ ~flowLast.credSame => /\ flowLast.tokValid
                                 /\ flowLast.tokType = "password_reset"
                                 /\ flowLast.pwValid
        /\ (flowLast.issuedAs \cap {"access", "refresh"} # {}) =>
              (~flowLast.ok /\ flowLast.credSame)
        /\ ~flowLast.ok => flowLast.credSame

\* a valid access token carrying an email claim was refused, with a valid
\* new password
C14_Witness ==
    /\ flowLast.op = "reset_confirm"
    /\ flowLast.issuedAs = {"access"}
    /\ Has(flowLast.tok.payload, "email")
    /\ flowLast.tokValid
    /\ flowLast.pwValid
    /\ ~flowLast.ok
    /\ flowLast.credSame

\* C15 as stated: the credential changes only with a verified current
\* password and a valid new one, and after a successful change the new
\* password verifies and the old one does not.
C15_ChangePasswordAsStated ==
    flowLast.op = "change" =>
        /\ ~flowLast.credSame => (flowLast.curOk /\ flowLast.pwValid)
        /\ (~flowLast.curOk \/ ~flowLast.pwValid) => flowLast.credSame
        /\ flowLast.ok => (flowLast.newVerifies /\ ~flowLast.oldVerifies)

\* C15 amended: as stated, except that the old password stops verifying only
\* when the new password differs from it.
C15_ChangePassword ==
    flowLast.op = "change" =>
        /\ ~flowLast.credSame => (flowLast.curOk /\ flowLast.pwValid)
        /\ (~flowLast.curOk \/ ~flowLast.pwValid) => flowLast.credSame
        /\ flowLast.ok => /\ flowLast.newVerifies
                          /\ ~flowLast.samePw => ~flowLast.oldVerifies

\* a password was changed to a different one: the new one verifies, the old
\* one no longer does
C15_Witness ==
    /\ flowLast.op = "change"
    /\ flowLast.ok
    /\ ~flowLast.samePw
    /\ flowLast.newVerifies
    /\ ~flowLast.oldVerifies

----------------------------------------------------------------------------
(* Session manager: create, get, update (read, then write), delete *)

CacheTTL      == 1    \* settings.cache_ttl in seconds, scaled
MaxPending    == 1    \* update_session calls in flight at one time
SessMaxCreated == 1   \* create_session calls that succeed in one behaviour

\* RedisManager.set: `ex=expire or settings.cache_ttl`, in seconds
SetExpire(expire) == IF expire = 0 THEN CacheTTL ELSE expire

\* create_session: expire_seconds; expires_delta is 0 for None, else in ticks
SessionExpireSeconds(expires_delta) ==
    IF expires_delta # 0 THEN IntSec(expires_delta) ELSE SessionTTL

SessionsWith(sid, rec) ==
    [x \in (DOMAIN sessions) \cup {sid} |-> IF x = sid THEN rec ELSE sessions[x]]

SessOutcome(op, sid, ok) ==
    [NoSess EXCEPT !.op = op, !.sid = sid, !.ok = ok, !.storeOk = StoreOk]

\* create_session(user_id, data, expires_delta): set_json must succeed,
\* otherwise RuntimeError
\* the identifier create_session generates: one that was never used (the
\* identifiers are interchangeable, the least unused one stands for any)
NewSessionId == CHOOSE sid \in FreshSessionIds : \A x \in FreshSessionIds : sid <= x

CreateSession(user_id, data, expires_delta) ==
    /\ Cardinality(DOMAIN created) < SessMaxCreated
    /\ FreshSessionIds # {}
    /\ \E sid \in (IF RedisSetOk THEN {NewSessionId} ELSE {0}) :
       /\ sessions' = IF RedisSetOk
                      THEN SessionsWith(sid,
                              [data |-> SessionData(user_id, data),
                               expires |-> now + SetExpire(SessionExpireSeconds(expires_delta)) * Res])
                      ELSE sessions
       /\ created' = IF RedisSetOk
                     THEN [x \in (DOMAIN created) \cup {sid} |->
                             IF x = sid THEN [user_id |-> user_id, meta |-> data]
                             ELSE created[x]]
                     ELSE created
       /\ sessLast' = SessOutcome("create", sid, RedisSetOk)
       /\ UNCHANGED <<wsVars, regVars, now, redis, users, tokVars, rateVars, loginLast, settings,
                      flowVars, pending, deleted>>

GetSession(sid) ==
    /\ sessLast' = [SessOutcome("get", sid, get_session(sid).found) EXCEPT
                       !.found = get_session(sid).found,
                       !.keys = DOMAIN get_session(sid).data]
    /\ UNCHANGED <<wsVars, regVars, now, redis, users, tokVars, rateVars, loginVars, flowVars,
                   pending, deleted, created>>

DeleteSession(sid) ==
    LET after == delete_session(sid) IN
    /\ sessions' = after
    /\ deleted' = deleted \cup ((DOMAIN sessions) \ (DOMAIN after))
    /\ sessLast' = [SessOutcome("delete", sid, RedisDelete(sessions, sid)) EXCEPT
                       !.wasPresent = sid \in DOMAIN sessions,
                       !.absentAfter = redis # "up" \/ sid \notin DOMAIN after]
    /\ UNCHANGED <<wsVars, regVars, now, redis, users, tokVars, rateVars, loginLast, settings,
                   flowVars, pending, created>>

\* update_session up to `current_data = await redis_manager.get_json(...)`:
\* without a record it returns False, with one it goes on to the write
UpdateSessionRead(sid, data) ==
    LET cur == get_session(sid) IN
    /\ Cardinality(pending) < MaxPending
    /\ pending' = IF cur.found
                  THEN pending \cup {[sid |-> sid, current_data |-> cur.data, data |-> data]}
                  ELSE pending
    /\ sessLast' = IF cur.found THEN NoSess
                   ELSE [SessOutcome("update", sid, FALSE) EXCEPT !.storeSame = TRUE]
    /\ UNCHANGED <<wsVars, regVars, now, redis, users, tokVars, rateVars, loginVars, flowVars,
                   deleted, created>>

\* update_session from `current_data.update(data)` on: set_json of the merged
\* record, without an expiry of its own
UpdateSessionWrite(p) ==
    LET merged == UpdateDict(p.current_data, p.data) IN
    /\ pending' = pending \ {p}
    /\ sessions' = IF RedisSetOk
                   THEN SessionsWith(p.sid, [data |-> merged,
                                             expires |-> now + SetExpire(0) * Res])
                   ELSE sessions
    /\ sessLast' = [SessOutcome("update", p.sid, RedisSetOk) EXCEPT
                       !.merged = /\ RedisSetOk
                                  /\ \A k \in DOMAIN p.data : merged[k] = p.data[k]
                                  /\ \A k \in (DOMAIN p.current_data) \ DOMAIN p.data :
                                        merged[k] = p.current_data[k],
                       !.expirySame = /\ RedisSetOk
                                      /\ p.sid \in DOMAIN sessions
                                      /\ now + SetExpire(0) * Res = sessions[p.sid].expires]
    /\ UNCHANGED <<wsVars, regVars, now, redis, users, tokVars, rateVars, loginLast, settings,
                   flowVars, deleted, created>>

SessionMeta == {[ip |-> "unknown"], [ip |-> "unknown", user_id |-> 9]}

InitSession == InitCommon /\ settings.feature_email_verification = FALSE

NextSession ==
    \/ Tick
    \/ RedisInitialize
    \/ RedisGoesDown
    \/ RedisComesBack
    \/ \E data \in SessionMeta, expires_delta \in {0, Res} : CreateSession(1, data, expires_delta)
    \/ \E sid \in SessionIds : GetSession(sid)
    \/ \E sid \in SessionIds : DeleteSession(sid)
    \/ \E sid \in SessionIds : UpdateSessionRead(sid, [page |-> "home"])
    \/ \E p \in pending : UpdateSessionWrite(p)

SpecSession == InitSession /\ [][NextSession]_vars

\* C16: get_session of a session that create_session(u, meta) made and that
\* neither a delete nor the TTL has removed returns (store available) a record
\* with every key of meta and with user_id and created_at; right after
\* delete_session(id), get_session(id) returns absent.
C16_SessionRoundTrip ==
    /\ (/\ sessLast.op = "get"
        /\ sessLast.storeOk
        /\ sessLast.sid \in DOMAIN created
        /\ sessLast.sid \notin deleted) =>
          /\ sessLast.found
          /\ (DOMAIN created[sessLast.sid].meta) \cup {"user_id", "created_at"}
                \subseteq sessLast.keys
    /\ sessLast.op = "delete" => sessLast.absentAfter

\* a session created with metadata that has a user_id key of its own was read back
C16_Witness ==
    /\ sessLast.op = "get"
    /\ sessLast.storeOk
    /\ sessLast.found
    /\ sessLast.sid \in DOMAIN created
    /\ "user_id" \in DOMAIN created[sessLast.sid].meta
    /\ "ip" \in sessLast.keys

\* C17: update_session for an absent session returns false and changes
\* nothing, and no session that was deleted (or expired) is present again.
C17_UpdateNeverCreates ==
    /\ (sessLast.op = "update" /\ ~sessLast.ok /\ sessLast.storeOk) => sessLast.storeSame
    /\ \A sid \in deleted : sid \notin DOMAIN sessions

-----------------------------------------------------------------------------
(* WebSocket connection manager (app/api/websocket.py) *)

WsMaxMessages == 1   \* client messages handled in one behaviour
WsMaxCloses   == 2   \* clients that go away in one behaviour

Range(s) == {s[i] : i \in 1..Len(s)}

DropKey(d, k) == [x \in (DOMAIN d) \ {k} |-> d[x]]

PutKey(d, k, v) == [x \in (DOMAIN d) \cup {k} |-> IF x = k THEN v ELSE d[x]]

RECURSIVE SortedKeys(_)
SortedKeys(S) ==
    IF S = {} THEN <<>>
    ELSE LET m == CHOOSE x \in S : \A y \in S : x <= y
         IN  <<m>> \o SortedKeys(S \ {m})

\* the minimal user object authenticate_websocket builds from the token claims
MockUser(id, email, username) ==
    [id |-> id, email |-> email, username |-> username, is_active |-> TRUE]

\* authenticate_websocket: the user object it returns, or NoUser for None
authenticated_user(tok) ==
    IF authenticate_websocket(tok) # "ok" THEN NoUser
    ELSE MockUser(tok.payload["sub"],
                  IF Has(tok.payload, "email") THEN tok.payload["email"] ELSE "",
                  IF Has(tok.payload, "username") THEN tok.payload["username"] ELSE "")

\* getattr(user, 'is_superuser', False)
getattr_is_superuser(user) ==
    IF "is_superuser" \in DOMAIN user THEN user.is_superuser ELSE FALSE

\* one observation of a completed call
WsObs(op, conn, user) ==
    [op |-> op, conn |-> conn, user |-> user, exclude |-> NoConn, kind |-> "",
     sent |-> {}, start |-> {}, before |-> 0, after |-> 0, removed |-> FALSE,
     log |-> {}, members |-> {}, storeOk |-> FALSE, member |-> FALSE,
     failed |-> {}, registered |-> {}]

\* a broadcast_to_user call at its for loop: the list object it iterates
\* (live while active_connections[user_id] is still that object), the position,
\* connections_to_remove, and the position in the clean-up loop
LoopFrame(user_id, kind, exclude, lst) ==
    [user |-> user_id, kind |-> kind, exclude |-> exclude, lst |-> lst,
     live |-> TRUE, idx |-> 1, phase |-> "send", failed |-> <<>>, cidx |-> 1,
     sent |-> {}, start |-> Range(lst)]

\* a send_personal_message call: one send, and disconnect when it fails
PersonalFrame(kind, websocket) ==
    [user |-> 0, kind |-> kind, exclude |-> NoConn, lst |-> <<websocket>>,
     live |-> FALSE, idx |-> 1, phase |-> "send", failed |-> <<>>, cidx |-> 1,
     sent |-> {}, start |-> {}]

BroadcastCall(user_id, kind) ==
    [fn |-> "broadcast_to_user", user |-> user_id, kind |-> kind, ws |-> NoConn]

PersonalCall(kind, websocket) ==
    [fn |-> "send_personal_message", user |-> 0, kind |-> kind, ws |-> websocket]

\* `if exclude_websocket and websocket == exclude_websocket: continue`
Excluded_never(exclude_websocket, websocket) == FALSE

Excluded(exclude_websocket, websocket) ==
    exclude_websocket # NoConn /\ websocket = exclude_websocket

\* disconnect, "clean up empty user entries"
PruneEmpty_keep(conns, user_id) == conns

PruneEmpty(conns, user_id) ==
    IF conns[user_id] = <<>> THEN DropKey(conns, user_id) ELSE conns

\* disconnect replaces the list of user_id by a new object: the loops that
\* iterate the old one keep what it holds
FreezeFrames(hs, user_id) ==
    [h \in DOMAIN hs |->
        [hs[h] EXCEPT !.stack =
            [i \in 1..Len(hs[h].stack) |->
                IF hs[h].stack[i].user = user_id /\ hs[h].stack[i].live
                THEN [hs[h].stack[i] EXCEPT !.live = FALSE] ELSE hs[h].stack[i]]]]

\* connect appends to the list of user_id in place: the loops that iterate
\* that object see the new connection
GrowFrames(hs, user_id, websocket) ==
    [h \in DOMAIN hs |->
        [hs[h] EXCEPT !.stack =
            [i \in 1..Len(hs[h].stack) |->
                IF hs[h].stack[i].user = user_id /\ hs[h].stack[i].live
                THEN [hs[h].stack[i] EXCEPT !.lst = Append(@, websocket)]
                ELSE hs[h].stack[i]]]]

Push(S, c, f) == [S EXCEPT !.hs[c].stack = Append(@, f)]

SetTop(S, c, f) == [S EXCEPT !.hs[c].stack[Len(S.hs[c].stack)] = f]

\* variant: a failed connection is left registered
disconnect_leaves(c, S, websocket) == S

\* ConnectionManager.disconnect called by the coroutine of c, up to the first
\* send of its notification: the list of the user is built anew without the
\* connection, the entry is dropped when empty, the metadata is removed
disconnect(c, S, websocket) ==
    IF websocket \notin DOMAIN S.md THEN S
    ELSE LET user_id == S.md[websocket].user_id
             listed  == user_id \in DOMAIN S.ac
             Keep(ws) == ws # websocket
             ac2 == IF listed
                    THEN PruneEmpty([S.ac EXCEPT ![user_id] = SelectSeq(@, Keep)], user_id)
                    ELSE S.ac
             hs2 == IF listed THEN FreezeFrames(S.hs, user_id) ELSE S.hs
             obs == [WsObs("disconnect", websocket, user_id) EXCEPT
                        !.before = IF listed THEN Len(S.ac[user_id]) ELSE 0,
                        !.after = IF user_id \in DOMAIN ac2 THEN Len(ac2[user_id]) ELSE 0,
                        !.removed = listed /\ user_id \notin DOMAIN ac2]
             S2 == [ac |-> ac2, md |-> DropKey(S.md, websocket), hs |-> hs2,
                    out |-> S.out \cup {obs}]
         IN  IF user_id \in DOMAIN ac2
             THEN Push(S2, c, LoopFrame(user_id, "connection_closed", NoConn, ac2[user_id]))
             ELSE S2

\* the start of a call made by the coroutine of c
StartCall(c, S, call) ==
    IF call.fn = "send_personal_message"
    THEN Push(S, c, PersonalFrame(call.kind, call.ws))
    ELSE IF call.user \notin DOMAIN S.ac THEN S
    ELSE Push(S, c, LoopFrame(call.user, call.kind, NoConn, S.ac[call.user]))

\* what a returning broadcast_to_user or send_personal_message call has
\* done, and the connections registered when it returns
LoopObs(c, f, S) ==
    [WsObs(IF f.user # 0 THEN "broadcast_to_user" ELSE "send_personal_message", c, f.user)
        EXCEPT !.exclude = f.exclude, !.kind = f.kind, !.sent = f.sent, !.start = f.start,
               !.failed = Range(f.failed), !.registered = DOMAIN S.md]

\* the coroutine of c runs from the point where it was resumed to its next
\* await (a send_json or the receive_json of the endpoint loop)
RECURSIVE RunToAwait(_, _)
RunToAwait(c, S) ==
    LET h == S.hs[c] IN
    IF h.stack # <<>>
    THEN LET f == h.stack[Len(h.stack)] IN
         IF f.phase = "send"
         THEN IF f.idx > Len(f.lst)
              THEN RunToAwait(c, SetTop(S, c, [f EXCEPT !.phase = "cleanup"]))
              ELSE IF Excluded(f.exclude, f.lst[f.idx])
              THEN RunToAwait(c, SetTop(S, c, [f EXCEPT !.idx = @ + 1]))
              ELSE S
         ELSE IF f.cidx > Len(f.failed)
              THEN RunToAwait(c,
                     [S EXCEPT !.hs[c].stack = SubSeq(@, 1, Len(@) - 1),
                               !.out = @ \cup {LoopObs(c, f, S)}])
              ELSE RunToAwait(c,
                     disconnect(c, SetTop(S, c, [f EXCEPT !.cidx = @ + 1]), f.failed[f.cidx]))
    ELSE IF h.todo # <<>>
    THEN RunToAwait(c, StartCall(c, [S EXCEPT !.hs[c].todo = Tail(@)], Head(h.todo)))
    ELSE IF h.req # "none"
    THEN [S EXCEPT !.hs[c].req = "none", !.hs[c].log = {},
                   !.hs[c].member_ids = {}, !.hs[c].start = {},
                   !.out = @ \cup {[WsObs("handled", c, h.user.id) EXCEPT
                                       !.kind = h.req, !.log = h.log,
                                       !.members = h.member_ids, !.start = h.start]}]
    ELSE S

WsState == [ac |-> active_connections, md |-> connection_metadata, hs |-> handlers, out |-> {}]

WsSet(S) ==
    /\ active_connections' = S.ac
    /\ connection_metadata' = S.md
    /\ handlers' = S.hs
    /\ wsLast' = S.out

roomFrame == <<now, redis, users, tokVars, rateVars, loginVars, flowVars, sessVars, regVars>>

wsFrame == <<roomFrame, rooms>>

\* ConnectionManager.connect after accept: registration in both maps
connect(S, websocket, user_id, metadata) ==
    LET ac2 == IF user_id \in DOMAIN S.ac
               THEN [S.ac EXCEPT ![user_id] = Append(@, websocket)]
               ELSE PutKey(S.ac, user_id, <<websocket>>)
        md2 == PutKey(S.md, websocket, UpdateDict([user_id |-> user_id], metadata))
        hs2 == GrowFrames(S.hs, user_id, websocket)
    IN  Push([S EXCEPT !.ac = ac2, !.md = md2, !.hs = hs2], websocket,
             LoopFrame(user_id, "connection_established", websocket, ac2[user_id]))

\* websocket_endpoint up to its first await after registration
WsConnect(c, tok) ==
    LET user == authenticated_user(tok) IN
    /\ handlers[c].pc = "init"
    /\ sock[c] = "new"
    /\ IF user = NoUser
       THEN /\ sock' = [sock EXCEPT ![c] = "closed"]
            /\ handlers' = [handlers EXCEPT ![c].pc = "done"]
            /\ wsLast' = {}
            /\ UNCHANGED <<active_connections, connection_metadata>>
       ELSE /\ sock' = [sock EXCEPT ![c] = "open"]
            /\ LET S0 == [WsState EXCEPT
                            !.hs[c] = [NoHandler EXCEPT
                                         !.pc = "run", !.user = user,
                                         !.todo = <<PersonalCall("welcome", c),
                                                    PersonalCall("stats", c)>>]]
                   S1 == connect(S0, c, user.id,
                                 [email |-> user.email, username |-> user.username])
               IN  WsSet(RunToAwait(c, S1))
    /\ UNCHANGED <<wsMsgs, wsFrame>>

\* ConnectionManager.broadcast_to_all: the calls it makes, over list(keys)
broadcast_to_all(kind) ==
    LET keys == SortedKeys(DOMAIN active_connections)
    IN  [i \in 1..Len(keys) |-> BroadcastCall(keys[i], kind)]

\* str(user_id) and int(member_id_str)
str(n) == CASE n = 1 -> "1" [] n = 2 -> "2" [] n = 3 -> "3" [] n = 4 -> "4" [] OTHER -> "0"

int(t) == CHOOSE n \in UserIds \cup {0} : str(n) = t

\* send_room_message: the broadcast_to_user calls over the members it read
send_room_message(member_ids) ==
    LET ids == SortedKeys({int(m) : m \in member_ids})
    IN  [i \in 1..Len(ids) |-> BroadcastCall(ids[i], "room_message")]

\* handle_websocket_message: the calls of the branch taken
handle_websocket_message(websocket, user, data) ==
    IF data.type = "ping" THEN <<PersonalCall("pong", websocket)>>
    ELSE IF data.type = "broadcast"
    THEN IF ~getattr_is_superuser(user)
         THEN <<PersonalCall("error: Permission denied", websocket)>>
         ELSE broadcast_to_all("broadcast_message")
    ELSE IF data.type = "private_message"
    THEN IF data.target_user_id = 0
         THEN <<PersonalCall("error: Missing target_user_id or message", websocket)>>
         ELSE <<BroadcastCall(data.target_user_id, "private_message"),
                PersonalCall("message_sent", websocket)>>
    ELSE IF data.type = "join_room"
    THEN IF data.room = "" THEN <<>>
         ELSE <<PersonalCall("room_joined", websocket)>>
    ELSE IF data.type = "leave_room"
    THEN IF data.room = "" \/ ~StoreOk THEN <<>>
         ELSE <<PersonalCall("room_left", websocket)>>
    ELSE IF data.type = "room_message"
    THEN IF data.room = "" \/ data.message = "" \/ ~StoreOk THEN <<>>
         ELSE send_room_message(rooms[data.room])
    ELSE <<PersonalCall("error: Unknown message type", websocket)>>

\* the message loop of websocket_endpoint: format check, then the handler
endpoint_calls_silent(websocket, user, data) ==
    IF "type" \notin DOMAIN data THEN <<>>
    ELSE handle_websocket_message(websocket, user, data)

endpoint_calls(websocket, user, data) ==
    IF "type" \notin DOMAIN data
    THEN <<PersonalCall("error: Invalid message format", websocket)>>
    ELSE handle_websocket_message(websocket, user, data)

MessageType(data) == IF "type" \in DOMAIN data THEN data.type ELSE "invalid"

IsRoomOp(data, ty) == MessageType(data) = ty /\ data.room # ""

\* leave_chat_room: redis_client.srem
leave_chat_room_keeps(user_id, room) == rooms

leave_chat_room(user_id, room) ==
    IF StoreOk THEN [rooms EXCEPT ![room] = @ \ {str(user_id)}] ELSE rooms

\* join_chat_room: redis_manager.sadd, which answers False when the store
\* cannot be reached
join_chat_room(user_id, room) ==
    IF StoreOk THEN [rooms EXCEPT ![room] = @ \cup {str(user_id)}] ELSE rooms

\* the member sets after the store command of the message
RoomsAfter(user, data) ==
    IF IsRoomOp(data, "join_room") THEN join_chat_room(user.id, data.room)
    ELSE IF IsRoomOp(data, "leave_room") THEN leave_chat_room(user.id, data.room)
    ELSE rooms

\* what a join or leave did to the membership of the user
RoomObs(c, user, data) ==
    IF IsRoomOp(data, "join_room") \/ IsRoomOp(data, "leave_room")
    THEN {[WsObs(data.type, c, user.id) EXCEPT
             !.storeOk = StoreOk,
             !.member = str(user.id) \in RoomsAfter(user, data)[data.room]]}
    ELSE {}

\* requests whose deliveries are recorded while they are handled
LoggedRequests == {"broadcast", "invalid", "unknown_type", "room_message"}

\* receive_json returns a message of the client and the endpoint handles it
ReceiveWith(c, data, cap) ==
    LET user == handlers[c].user
        sending == IsRoomOp(data, "room_message") /\ data.message # "" /\ StoreOk
    IN  /\ wsMsgs < cap
        /\ handlers[c].pc = "run"
        /\ handlers[c].stack = <<>>
        /\ sock[c] = "open"
        /\ wsMsgs' = wsMsgs + 1
        /\ rooms' = RoomsAfter(user, data)
        /\ WsSet(RunToAwait(c,
              [WsState EXCEPT
                 !.out = RoomObs(c, user, data),
                 !.hs[c].req = MessageType(data),
                 !.hs[c].member_ids = IF sending THEN rooms[data.room] ELSE {},
                 !.hs[c].start = IF sending THEN DOMAIN connection_metadata ELSE {},
                 !.hs[c].todo = endpoint_calls(c, user, data)]))
        /\ UNCHANGED <<sock, roomFrame>>

Receive(c, data) == ReceiveWith(c, data, WsMaxMessages)

\* receive_json raises WebSocketDisconnect; finally: manager.disconnect
ReceiveDisconnect(c) ==
    /\ handlers[c].pc = "run"
    /\ handlers[c].stack = <<>>
    /\ sock[c] = "closed"
    /\ WsSet(RunToAwait(c, disconnect(c, [WsState EXCEPT !.hs[c].pc = "done"], c)))
    /\ UNCHANGED <<sock, wsMsgs, wsFrame>>

\* the send_json the coroutine of c awaits completes: delivered when the
\* socket is open, an exception otherwise
SendCompletes(c) ==
    /\ handlers[c].stack # <<>>
    /\ LET h == handlers[c]
           f == h.stack[Len(h.stack)]
           websocket == f.lst[f.idx]
           ok == sock[websocket] = "open"
           f2 == [f EXCEPT !.idx = @ + 1,
                           !.sent = IF ok THEN @ \cup {websocket} ELSE @,
                           !.failed = IF ok THEN @ ELSE Append(@, websocket)]
           S0 == SetTop(WsState, c, f2)
           S1 == [S0 EXCEPT !.hs[c].log =
                     IF ok /\ h.req \in LoggedRequests THEN @ \cup {<<f.kind, websocket>>} ELSE @]
       IN  WsSet(RunToAwait(c, S1))
    /\ UNCHANGED <<sock, wsMsgs, wsFrame>>

\* the client goes away; cap bounds the clients that do
ClientClosesWith(c, cap) ==
    /\ Cardinality({x \in Conns : sock[x] = "closed"}) < cap
    /\ sock[c] = "open"
    /\ sock' = [sock EXCEPT ![c] = "closed"]
    /\ wsLast' = {}
    /\ UNCHANGED <<active_connections, connection_metadata, handlers, wsMsgs, wsFrame>>

ClientCloses(c) == ClientClosesWith(c, WsMaxCloses)

\* the access token login issues for user u
LoginAccessToken(u) == create_token_pair(u, IdentityClaims(u)).access_token

\* the token each client presents: two connections of user 1, and one that
\* comes with the access token of superuser 4 or with a refresh token
WsTokens(c) ==
    IF c = "c3"
    THEN {LoginAccessToken(4), create_refresh_token([sub |-> 1, type |-> "refresh"])}
    ELSE {LoginAccessToken(1)}

ClientMessages ==
    {[type |-> "ping", target_user_id |-> 0],
     [type |-> "broadcast", target_user_id |-> 0],
     [type |-> "private_message", target_user_id |-> 1],
     [type |-> "private_message", target_user_id |-> 4]}

InitWs == InitCommon /\ settings.feature_email_verification = FALSE

NextWs ==
    \/ \E c \in Conns : \E tok \in WsTokens(c) : WsConnect(c, tok)
    \/ \E c \in Conns, data \in ClientMessages : Receive(c, data)
    \/ \E c \in Conns : ReceiveDisconnect(c)
    \/ \E c \in Conns : SendCompletes(c)
    \/ \E c \in Conns : ClientCloses(c)

SpecWs == InitWs /\ [][NextWs]_vars

\* connections registered for user u
Registered(u) == {c \in DOMAIN connection_metadata : connection_metadata[c].user_id = u}

\* C18: a broadcast_to_user(u, message, exclude) call that has returned
\* delivered the message to no connection of another user and not to the
\* excluded one, and to every connection that was registered for u when it
\* started and is still registered and open.
C18_BroadcastToUser ==
    \A o \in wsLast :
       o.op = "broadcast_to_user" =>
          /\ \A c \in o.sent : handlers[c].user.id = o.user
          /\ o.exclude \notin o.sent
          /\ \A c \in o.start \ {o.exclude} :
                (c \in Registered(o.user) /\ sock[c] = "open") => c \in o.sent

\* with two sockets of one user registered, a call excluding one of them
\* delivered to exactly the other
C18_Witness ==
    \E o \in wsLast :
       /\ o.op = "broadcast_to_user"
       /\ Cardinality(o.start) = 2
       /\ o.exclude \in o.start
       /\ o.sent = o.start \ {o.exclude}

\* C19: a connection is listed under u exactly when its metadata names u, no
\* user maps to an empty list, and a disconnect of a registered connection
\* lowers the count of its user by one, dropping the user entry only at zero.
C19_RegistryConsistent ==
    /\ \A u \in DOMAIN active_connections :
          /\ active_connections[u] # <<>>
          /\ Range(active_connections[u]) = Registered(u)
          /\ Cardinality(Range(active_connections[u])) = Len(active_connections[u])
    /\ \A c \in DOMAIN connection_metadata :
          /\ connection_metadata[c].user_id \in DOMAIN active_connections
          /\ c \in Range(active_connections[connection_metadata[c].user_id])
    /\ \A o \in wsLast :
          o.op = "disconnect" =>
             /\ o.after = o.before - 1
             /\ o.removed <=> o.after = 0

\* one of two connections of a user was disconnected and the entry stayed
C19_Witness ==
    \E o \in wsLast :
       /\ o.op = "disconnect"
       /\ o.before = 2
       /\ o.after = 1
       /\ ~o.removed
       /\ o.user \in DOMAIN active_connections

\* C20: a handled `broadcast` message of a superuser's connection delivered
\* broadcast_message to every registered open connection, the sender's
\* included; one of another user delivered 'Permission denied' to the sender
\* and broadcast_message to nobody.
C20_BroadcastPrivileged ==
    \A o \in wsLast :
       (o.op = "handled" /\ o.kind = "broadcast") =>
          IF users[o.user].is_superuser
          THEN \A c \in DOMAIN connection_metadata :
                  sock[c] = "open" => <<"broadcast_message", c>> \in o.log
          ELSE /\ sock[o.conn] = "open" => <<"error: Permission denied", o.conn>> \in o.log
               /\ \A c \in Conns : <<"broadcast_message", c>> \notin o.log

-----------------------------------------------------------------------------
(* Message loop and chat rooms *)

RoomMaxMessages == 2   \* client messages handled in one behaviour
RoomMaxCloses   == 1   \* clients that go away in one behaviour

RoomReceive(c, data) == ReceiveWith(c, data, RoomMaxMessages)

RoomClientCloses(c) == ClientClosesWith(c, RoomMaxCloses)

RoomMessages ==
    {[message |-> "invalid"],
     [type |-> "unknown_type"],
     [type |-> "join_room", room |-> "lobby"],
     [type |-> "leave_room", room |-> "lobby"],
     [type |-> "room_message", room |-> "lobby", message |-> "Hello, room!"]}

InitRoom == InitCommon /\ settings.feature_email_verification = FALSE

NextRoom ==
    \/ RedisInitialize
    \/ RedisGoesDown
    \/ RedisComesBack
    \/ \E c \in Conns : \E tok \in WsTokens(c) : WsConnect(c, tok)
    \/ \E c \in Conns, data \in RoomMessages : RoomReceive(c, data)
    \/ \E c \in Conns : ReceiveDisconnect(c)
    \/ \E c \in Conns : SendCompletes(c)
    \/ \E c \in Conns : RoomClientCloses(c)

SpecRoom == InitRoom /\ [][NextRoom]_vars

\* C21: a handled message without a type or with an unknown type was answered
\* to the sender (whose socket is open) with an error, the connection is still
\* registered, and its coroutine is back at receive_json.
C21_ErrorReplyKeepsConnection ==
    \A o \in wsLast :
       (/\ o.op = "handled"
        /\ o.kind \in {"invalid", "unknown_type"}
        /\ sock[o.conn] = "open") =>
          /\ \E e \in {"error: Invalid message format", "error: Unknown message type"} :
                <<e, o.conn>> \in o.log
          /\ o.conn \in DOMAIN connection_metadata
          /\ handlers[o.conn].pc = "run"
          /\ handlers[o.conn].stack = <<>>

\* the second message of the run, an unknown type, was answered with an error
C21_Witness ==
    /\ wsMsgs = 2
    /\ \E o \in wsLast :
          /\ o.op = "handled"
          /\ o.kind = "unknown_type"
          /\ <<"error: Unknown message type", o.conn>> \in o.log
          /\ o.conn \in DOMAIN connection_metadata

-----------------------------------------------------------------------------
(* Rate limit of the login route *)

\* dependencies=[Depends(rate_limit_normal)] of the login route
rate_limit_normal == [limit |-> NormalLimit, window |-> RlWindow]

\* the burst of the login test: more requests than the strict tier lets
\* through (15 against 10), fewer than the normal tier does (60)
LoginBurst == StrictLimit + 1

LoginRequest(ip) == RateLimiterCall(rate_limit_normal, ip)

NextLoginRate ==
    \/ TickRate
    \/ RedisInitialize
    \/ RedisGoesDown
    \/ RedisComesBack
    \/ \E ip \in Clients : LoginRequest(ip)

SpecLoginRate == InitRate /\ [][NextLoginRate]_vars

\* C23: no client gets LoginBurst login requests through within one window,
\* that is, of LoginBurst requests sent within a window one is answered 429.
C23_LoginBurstRejected ==
    \A k \in DOMAIN rlLog :
       \A i \in 1..Len(rlLog[k].allowedAt) :
          i + LoginBurst - 1 <= Len(rlLog[k].allowedAt) =>
             rlLog[k].allowedAt[i + LoginBurst - 1] - rlLog[k].allowedAt[i]
                >= rate_limit_normal.window * Res

-----------------------------------------------------------------------------
(* Registration (app/api/auth.py register) *)

RegMaxUsers   == 2   \* user records created by register in one behaviour
RegMaxPending == 2   \* register calls between lookup and create at one time

\* InputSanitizer.sanitize_username: strip().lower(), then only [a-z0-9_-]
sanitize_username(username) ==
    IF username = "Eve" THEN "eve" ELSE username

\* email.split("@")[0]
EmailPrefix(email) ==
    IF email = "e@x" THEN "e"
    ELSE IF email = "a@x" THEN "a"
    ELSE IF email = "alice@y" THEN "alice"
    ELSE email

\* `username or email.split("@")[0]`
EffectiveUsername(request) ==
    IF request.username # "" THEN sanitize_username(request.username)
    ELSE EmailPrefix(sanitize_email(request.email))

\* register up to User.create: the HTTPException it raises, or "ok"
register_checks(request, dbOk) ==
    LET email == sanitize_email(request.email)
        username == IF request.username # "" THEN sanitize_username(request.username) ELSE ""
    IN  IF ~validate(request.password)
        THEN [status |-> 400, detail |-> "Password does not meet requirements"]
        ELSE IF ~dbOk THEN [status |-> 500, detail |-> "Registration failed"]
        ELSE IF get_by_email(email) # 0
        THEN [status |-> 400, detail |-> "Email already registered"]
        ELSE IF username # "" /\ get_by_username(username) # 0
        THEN [status |-> 400, detail |-> "Username already taken"]
        ELSE [status |-> 0, detail |-> "ok"]

\* the unique constraints of users.email and users.username
UniqueViolation_none(email, username) == FALSE

UniqueViolation(email, username) ==
    \E u \in DOMAIN users : users[u].email = email \/ users[u].username = username

\* the autoincrement primary key
NewUserId == (CHOOSE m \in DOMAIN users : \A u \in DOMAIN users : u <= m) + 1

RegOutcome(request, res, dbOk, made) ==
    [NoReg EXCEPT
        !.op = "register", !.status = res.status, !.detail = res.detail,
        !.email = request.email, !.password = request.password,
        !.emailTaken = get_by_email(sanitize_email(request.email)) # 0,
        !.usernameTaken = get_by_username(EffectiveUsername(request)) # 0,
        !.pwValid = validate(request.password), !.dbOk = dbOk,
        !.created = made]

\* register: input handling and the two lookups
RegisterCheck(request, dbOk, salt) ==
    LET res == register_checks(request, dbOk)
        call == [request |-> request,
                 email |-> sanitize_email(request.email),
                 username |-> EffectiveUsername(request),
                 hashed_password |-> hash_password(request.password, salt)]
    IN  /\ Cardinality(DOMAIN users) < Cardinality(UserIds) + RegMaxUsers
        /\ IF res.detail = "ok"
           THEN /\ Cardinality(regPending) < RegMaxPending
                /\ call \notin regPending
                /\ regPending' = regPending \cup {call}
                /\ regLast' = NoReg
           ELSE /\ regLast' = RegOutcome(request, res, dbOk, FALSE)
                /\ UNCHANGED regPending
        /\ UNCHANGED <<updLast, updCount, admVars, pwVars, regs, users, now, redis, tokVars, rateVars, loginVars,
                       flowVars, sessVars, wsVars>>

\* register: User.create and the response
RegisterCreate(call) ==
    LET fails == UniqueViolation(call.email, call.username)
        res == IF fails THEN [status |-> 500, detail |-> "Registration failed"]
               ELSE [status |-> 201, detail |-> "created"]
        rec == [UserRec(call.email, call.username, call.hashed_password, TRUE, FALSE)
                   EXCEPT !.email_verified = ~settings.feature_email_verification,
                          !.updated_at = now]
    IN  /\ regPending' = regPending \ {call}
        /\ users' = IF fails THEN users ELSE PutKey(users, NewUserId, rec)
        /\ regs' = IF fails THEN regs
                   ELSE regs \cup {[email |-> call.request.email,
                                    password |-> call.request.password,
                                    user |-> NewUserId]}
        /\ regLast' = RegOutcome(call.request, res, TRUE, ~fails)
        /\ UNCHANGED <<updLast, updCount, admVars, pwVars, now, redis, tokVars, rateVars, loginVars, flowVars,
                       sessVars, wsVars>>

\* a login, and whom its access token authenticates as on /me
RegLogin(identifier, password) ==
    LET u == LoginUser(identifier)
        detail == login_detail(identifier, password, TRUE)
        tok == create_token_pair(u, IdentityClaims(u)).access_token
    IN  /\ \E sid \in SessionIds \cup {0} :
              /\ \A x \in FreshSessionIds : sid = 0 \/ sid <= x
              /\ LoginEffect(identifier, password, TRUE, sid)
        /\ regLast' = [NoReg EXCEPT
                         !.op = "login", !.status = login_status(detail), !.detail = detail,
                         !.email = identifier, !.password = password,
                         !.storeOk = RedisSetOk,
                         !.authAs = IF detail = "ok" /\ get_current_user(tok, TRUE) = "ok"
                                    THEN TokUser(tok) ELSE 0]
        /\ UNCHANGED <<updLast, updCount, admVars, pwVars, regs, regPending, now, redis, blacklist, revoked,
                       last, rateVars, loginLast, settings, flowVars, sessVars, wsVars>>

RegEmails    == {"E@x", "a@x", "alice@y"}
RegUsernames == {"", "eve"}
RegPasswords == {"Str0ng!pw", "weakpass"}
RegRequests  == [email : RegEmails, username : RegUsernames, password : RegPasswords]

\* the salt the hasher draws for the registrations of the run
RegSalt == CHOOSE salt \in Salts : TRUE

InitReg == InitCommon

NextReg ==
    \/ RedisInitialize
    \/ \E request \in RegRequests, dbOk \in BOOLEAN :
          RegisterCheck(request, dbOk, RegSalt)
    \/ \E call \in regPending : RegisterCreate(call)
    \/ \E identifier \in RegEmails, password \in RegPasswords : RegLogin(identifier, password)

SpecReg == InitReg /\ [][NextReg]_vars

\* C24: a login with the email string and the password of a successful
\* registration (verification not required, user active, store available)
\* is answered 200 and its access token authenticates as the registered user.
C24_RegisterThenLogin ==
    \A r \in regs :
       (/\ regLast.op = "login"
        /\ regLast.email = r.email
        /\ regLast.password = r.password
        /\ regLast.storeOk
        /\ ~settings.feature_email_verification
        /\ users[r.user].is_active) =>
          /\ regLast.status = 200
          /\ regLast.authAs = r.user

\* C26: no two user records share an email or a username, and a register
\* step that finds the email or the effective username taken creates none.
C26_IdentitiesUnique ==
    /\ \A u, v \in DOMAIN users :
          u # v => /\ users[u].email # users[v].email
                   /\ users[u].username # users[v].username
    /\ (regLast.op = "register" /\ (regLast.emailTaken \/ regLast.usernameTaken))
          => ~regLast.created

\* a registration lost the race for its email to a concurrent one
C26_Witness ==
    /\ regLast.op = "register"
    /\ regLast.pwValid
    /\ regLast.emailTaken
    /\ regLast.status = 500
    /\ ~regLast.created
    /\ Cardinality(DOMAIN users) > Cardinality(UserIds)

\* C27: a registration refused because its email or effective username is
\* taken is answered with the conflict error that names the field.
C27_ConflictReported ==
    (/\ regLast.op = "register"
     /\ regLast.pwValid
     /\ regLast.dbOk
     /\ ~regLast.created
     /\ (regLast.emailTaken \/ regLast.usernameTaken)) =>
        /\ regLast.status = 400
        /\ regLast.detail = IF regLast.emailTaken THEN "Email already registered"
                            ELSE "Username already taken"

-----------------------------------------------------------------------------
(* Updating a user record (app/api/users.py update_user) *)

UpdMaxUpdates == 2   \* update_user calls that write a record in one behaviour

AdminOnlyFields == {"email", "is_active", "is_superuser", "email_verified"}

\* `existing and existing.id != user_id` after User.get_by_username
UsernameTakenByOther(username, user_id) ==
    \E u \in DOMAIN users : users[u].username = username /\ u # user_id

\* `existing and existing.id != user_id` after User.get_by_email
EmailTakenByOther(email, user_id) ==
    \E u \in DOMAIN users : users[u].email = email /\ u # user_id

\* the response of update_user for a caller whose loaded record says
\* is_admin; a field of user_data that is None is absent
update_user_as(is_admin, current_user_id, user_id, user_data, dbOk) ==
    LET is_self  == user_id = current_user_id
    IN  IF ~dbOk THEN [status |-> 500, detail |-> "User update failed"]
        ELSE IF user_id \notin DOMAIN users
             THEN [status |-> 404, detail |-> "User not found"]
        ELSE IF ~is_self /\ ~is_admin
             THEN [status |-> 403, detail |-> "Not enough permissions"]
        ELSE IF /\ Has(user_data, "username")
                /\ UsernameTakenByOther(sanitize_username(user_data.username), user_id)
             THEN [status |-> 400, detail |-> "Username already taken"]
        ELSE IF /\ is_admin /\ Has(user_data, "email")
                /\ EmailTakenByOther(sanitize_email(user_data.email), user_id)
             THEN [status |-> 400, detail |-> "Email already registered"]
        ELSE IF is_admin /\ Has(user_data, "is_active") /\ is_self /\ ~user_data.is_active
             THEN [status |-> 400, detail |-> "Cannot deactivate your own account"]
        ELSE IF /\ is_admin /\ Has(user_data, "is_superuser") /\ is_self
                /\ ~user_data.is_superuser
             THEN [status |-> 400, detail |-> "Cannot remove your own superuser status"]
        ELSE IF Has(user_data, "password") /\ ~validate(user_data.password)
             THEN [status |-> 400, detail |-> "Password does not meet requirements"]
        ELSE [status |-> 200, detail |-> "ok"]

\* update_user when the caller's record is read at the time of the call
update_user(current_user_id, user_id, user_data, dbOk) ==
    update_user_as(users[current_user_id].is_superuser, current_user_id, user_id,
                   user_data, dbOk)

\* update_data without the `if is_admin:` around the admin-only fields
update_data_open(user_data, is_admin) ==
    LET keys == (DOMAIN user_data \cap ({"full_name", "username"} \cup AdminOnlyFields))
                   \cup (IF Has(user_data, "password") THEN {"hashed_password"} ELSE {})
    IN  [k \in keys |->
            IF k = "username" THEN sanitize_username(user_data.username)
            ELSE IF k = "email" THEN sanitize_email(user_data.email)
            ELSE IF k = "hashed_password" THEN hash_password(user_data.password, RegSalt)
            ELSE user_data[k]]

\* update_data as update_user prepares it
update_data(user_data, is_admin) ==
    LET keys == (DOMAIN user_data \cap {"full_name", "username"})
                   \cup (IF is_admin THEN DOMAIN user_data \cap AdminOnlyFields ELSE {})
                   \cup (IF Has(user_data, "password") THEN {"hashed_password"} ELSE {})
    IN  [k \in keys |->
            IF k = "username" THEN sanitize_username(user_data.username)
            ELSE IF k = "email" THEN sanitize_email(user_data.email)
            ELSE IF k = "hashed_password" THEN hash_password(user_data.password, RegSalt)
            ELSE user_data[k]]

\* User.update: setattr for every key, commit
UserUpdated(user, data) == [UpdateDict(user, data) EXCEPT !.updated_at = now]

\* PUT /users/{user_id} by an authenticated caller (get_current_user passed)
UpdateUser(current_user_id, user_id, user_data, dbOk) ==
    LET res  == update_user(current_user_id, user_id, user_data, dbOk)
        data == update_data(user_data, users[current_user_id].is_superuser)
        writes == res.status = 200 /\ DOMAIN data # {}
    IN  /\ updCount < UpdMaxUpdates
        /\ current_user_id \in DOMAIN users
        /\ users[current_user_id].is_active
        /\ users' = IF writes THEN [users EXCEPT ![user_id] = UserUpdated(@, data)]
                    ELSE users
        /\ updCount' = IF writes THEN updCount + 1 ELSE updCount
        /\ updLast' = [op |-> "update", caller |-> current_user_id,
                       callerSuper |-> users[current_user_id].is_superuser,
                       user_id |-> user_id, fields |-> DOMAIN user_data,
                       status |-> res.status, detail |-> res.detail,
                       passes |-> /\ dbOk
                                  /\ ~(/\ Has(user_data, "username")
                                       /\ UsernameTakenByOther(
                                             sanitize_username(user_data.username), user_id))
                                  /\ ~(Has(user_data, "password")
                                       /\ ~validate(user_data.password)),
                       before |-> users]
        /\ UNCHANGED <<now, redis, tokVars, rateVars, loginVars, flowVars, sessVars, wsVars,
                       regs, regPending, regLast, admVars, pwVars>>

\* the request bodies clients send
UpdRequests ==
    { [is_superuser |-> TRUE, is_active |-> FALSE, email |-> "hacked@x"],
      [full_name |-> "Hacked Name"],
      [username |-> "dave"],
      [password |-> "weakpass"],
      [password |-> "Str0ng!pw", email_verified |-> FALSE],
      [is_superuser |-> FALSE],
      [is_active |-> TRUE, email |-> "d@x"] }

\* the ids a client may name: every user and an id without a record
UpdTargets == UserIds \cup {99}

InitUpd == InitCommon

NextUpd ==
    \E current_user_id \in UserIds, user_id \in UpdTargets,
       user_data \in UpdRequests, dbOk \in BOOLEAN :
          UpdateUser(current_user_id, user_id, user_data, dbOk)

SpecUpd == InitUpd /\ [][NextUpd]_vars

AdminFields(user) == [k \in AdminOnlyFields |-> user[k]]

\* C25: after an update_user call by a caller who is not a superuser, an
\* update of the caller's own record has left is_superuser, is_active, email
\* and email_verified as they were, and is answered 200 when the username and
\* password it carries pass their checks; an update of another user's record
\* is answered 403 and no record has changed; no user's is_superuser differs
\* from before the call.
C25_NoPrivilegeEscalation ==
    (updLast.op = "update" /\ ~updLast.callerSuper) =>
        /\ updLast.user_id = updLast.caller =>
              /\ AdminFields(users[updLast.caller])
                    = AdminFields(updLast.before[updLast.caller])
              /\ updLast.passes => updLast.status = 200
        /\ (updLast.user_id # updLast.caller /\ updLast.user_id \in DOMAIN updLast.before
               /\ updLast.passes) =>
              /\ updLast.status = 403
        /\ updLast.user_id # updLast.caller => users = updLast.before
        /\ \A u \in DOMAIN users :
              users[u].is_superuser = updLast.before[u].is_superuser

\* a user who is not a superuser asked for is_superuser on the own record
\* and got 200
C25_Witness ==
    /\ updLast.op = "update"
    /\ ~updLast.callerSuper
    /\ updLast.user_id = updLast.caller
    /\ "is_superuser" \in updLast.fields
    /\ updLast.status = 200

-----------------------------------------------------------------------------
(* Responses to a token that fails a check; revoking near and past expiry *)

\* the token fails one of the checks of an entry point that requires `ty`:
\* malformed or expired, revoked, or of another type
FailsTokenCheck(tok, revokedNow, ty) ==
    ~verify_token(tok) \/ revokedNow \/ ~TypeIs(tok, ty)

\* C28: a token that is malformed, expired, revoked or of the wrong type is
\* refused by get_current_user_token and by the refresh endpoint, and every
\* such refusal carries the detail the entry point gives for a malformed
\* token, whichever check failed.
C28_FailuresIndistinguishable ==
    /\ (last.op = "http" /\ FailsTokenCheck(last.tok, last.revoked, "access")) =>
          /\ ~last.ok
          /\ last.detail = get_current_user_token(ForgedTok)
    /\ (last.op = "refresh" /\ FailsTokenCheck(last.tok, last.revoked, "refresh")) =>
          /\ ~last.ok
          /\ last.detail = refresh_token(ForgedTok, TRUE)

\* C29: revoke_token on a validly signed token with an exp claim returns
\* true and leaves no marker when exp - now <= 0; when exp - now > 0 and the
\* store is available it returns true and the marker of the raw token runs
\* out after the remaining lifetime in whole seconds.
C29_RevokeByRemainingLifetime ==
    (last.op = "revoke" /\ last.tok.sig = SecretKey /\ Has(last.tok.payload, "exp")
        /\ last.tok.payload["exp"] # 0) =>
        /\ last.tok.payload["exp"] - now <= 0 =>
              /\ last.ok
              /\ ~RedisExists(blacklist, last.tok)
        /\ (last.tok.payload["exp"] - now > 0 /\ last.storeOk) =>
              /\ last.ok
              /\ last.tok \in DOMAIN blacklist
              /\ blacklist[last.tok] = now + RevokeTtl(last.tok) * Res

-----------------------------------------------------------------------------
(* Login when the session cannot be stored *)

\* the last login passed every check before create_session
ReachedCreateSession(r) ==
    /\ r.status # 0
    /\ r.user # 0
    /\ r.pwOk
    /\ r.active
    /\ settings.feature_email_verification => users[r.user].email_verified

\* C30: a login that reaches create_session while the store does not accept
\* the write is answered 500 with no token pair and no session id, and the
\* call leaves the session store and the set of issued tokens as they were.
C30_SessionCreationFailsClosed ==
    [][(/\ redis' = redis
        /\ now' = now
        /\ ~RedisSetOk
        /\ ReachedCreateSession(loginLast)') =>
          /\ loginLast'.status = 500
          /\ loginLast'.tokens = {}
          /\ loginLast'.session_id = 0
          /\ sessions' = sessions
          /\ minted' = minted]_vars

\* a login with the right password of an active user failed at create_session
C30_Witness ==
    /\ loginLast.status = 500
    /\ loginLast.user # 0
    /\ loginLast.pwOk
    /\ loginLast.active
    /\ loginLast.tokens = {}
    /\ loginLast.session_id = 0

-----------------------------------------------------------------------------
(* Extending a session (app/core/auth.py extend_session) *)

\* RedisManager.expire: False without client, on error, or without the key
RedisExpire(kv, k) == redis = "up" /\ k \in DOMAIN kv /\ kv[k].expires > now

\* variant: the seconds are added to the time the key had left
extend_session_additive(session_id, expire_seconds) ==
    IF ~RedisExpire(sessions, session_id) THEN sessions
    ELSE [sessions EXCEPT ![session_id].expires = @ + expire_seconds * Res]

\* SessionManager.extend_session: the session keys afterwards; EXPIRE with
\* seconds <= 0 removes the key
extend_session(session_id, expire_seconds) ==
    IF ~RedisExpire(sessions, session_id) THEN sessions
    ELSE IF expire_seconds <= 0
         THEN [k \in (DOMAIN sessions) \ {session_id} |-> sessions[k]]
    ELSE [sessions EXCEPT ![session_id].expires = now + expire_seconds * Res]

\* the stored records apart from their expiry
Contents(kv) == [k \in DOMAIN kv |-> kv[k].data]

ExtendSession(sid, expires_delta) ==
    LET seconds == SessionExpireSeconds(expires_delta)
        after == extend_session(sid, seconds)
        ok == RedisExpire(sessions, sid)
    IN  /\ sessions' = after
        /\ deleted' = deleted \cup ((DOMAIN sessions) \ (DOMAIN after))
        /\ sessLast' = [SessOutcome("extend", sid, ok) EXCEPT
                           !.wasPresent = sid \in DOMAIN sessions,
                           !.storeSame = IF ok /\ seconds > 0
                                         THEN Contents(after) = Contents(sessions)
                                         ELSE IF ok THEN DropKey(after, sid) = DropKey(sessions, sid)
                                         ELSE after = sessions,
                           !.found = /\ redis = "up" /\ sid \in DOMAIN after
                                     /\ after[sid].expires > now,
                           !.seconds = seconds]
        /\ UNCHANGED <<wsVars, regVars, now, redis, users, tokVars, rateVars, loginLast,
                       settings, flowVars, pending, created>>

InitExtend == InitCommon /\ settings.feature_email_verification = FALSE

NextExtend ==
    \/ Tick
    \/ RedisInitialize
    \/ RedisGoesDown
    \/ RedisComesBack
    \/ \E data \in SessionMeta : CreateSession(1, data, 0)
    \/ \E sid \in SessionIds : GetSession(sid)
    \/ \E sid \in SessionIds, expires_delta \in {0, 1, Res} : ExtendSession(sid, expires_delta)

SpecExtend == InitExtend /\ [][NextExtend]_vars

-----------------------------------------------------------------------------
(* Failing sends *)

\* C32: when a send_personal_message or broadcast_to_user call returns, no
\* connection whose send failed in it is registered, and every connection the
\* message was delivered to whose socket is still open is registered.
C32_FailedSendsDeregistered ==
    \A o \in wsLast :
       o.op \in {"broadcast_to_user", "send_personal_message"} =>
          /\ o.failed \cap o.registered = {}
          /\ o.failed \cap o.sent = {}
          /\ \A c \in o.sent : sock[c] = "open" => c \in o.registered

\* a broadcast delivered to one connection of the user and failed for another
C32_Witness ==
    \E o \in wsLast :
       /\ o.op = "broadcast_to_user"
       /\ o.failed # {}
       /\ o.sent # {}
       /\ o.sent \subseteq o.registered

-----------------------------------------------------------------------------
(* Cancellation of a connection handler *)

CancelMaxCancels == 1   \* handlers cancelled in one behaviour
CancelMaxCloses  == 1   \* clients that go away in one behaviour

\* the coroutine is inside `await manager.connect(...)`, which
\* websocket_endpoint calls before its try block
InConnect(h) == h.stack # <<>> /\ h.stack[1].kind = "connection_established"

\* CancelledError is raised at the await the coroutine of c is suspended at:
\* inside connect it leaves websocket_endpoint, anywhere later the finally
\* block runs manager.disconnect
Cancel(c) ==
    /\ Cardinality({x \in Conns : handlers[x].pc = "cancelled"}) < CancelMaxCancels
    /\ handlers[c].pc = "run"
    /\ LET S0 == [WsState EXCEPT !.hs[c].pc = "cancelled", !.hs[c].stack = <<>>,
                                 !.hs[c].todo = <<>>, !.hs[c].req = "none"]
       IN  IF InConnect(handlers[c])
           THEN WsSet(S0)
           ELSE WsSet(RunToAwait(c, disconnect(c, S0, c)))
    /\ UNCHANGED <<sock, wsMsgs, wsFrame>>

InitCancel == InitCommon /\ settings.feature_email_verification = FALSE

NextCancel ==
    \/ \E c \in Conns : \E tok \in WsTokens(c) : WsConnect(c, tok)
    \/ \E c \in Conns : ReceiveDisconnect(c)
    \/ \E c \in Conns : SendCompletes(c)
    \/ \E c \in Conns : ClientClosesWith(c, CancelMaxCloses)
    \/ \E c \in Conns : Cancel(c)

SpecCancel == InitCancel /\ [][NextCancel]_vars

\* the handler of c has ended
HandlerEnded(c) == handlers[c].pc \in {"done", "cancelled"} /\ handlers[c].stack = <<>>

\* C33: a connection whose handler has ended is in neither
\* active_connections nor connection_metadata, and disconnect of a connection
\* without metadata changes nothing.
C33_NoConnectionOutlivesHandler ==
    /\ \A c \in Conns :
          HandlerEnded(c) =>
             /\ c \notin DOMAIN connection_metadata
             /\ \A u \in DOMAIN active_connections : c \notin Range(active_connections[u])
    /\ \A c \in Conns \ DOMAIN connection_metadata :
          disconnect(c, WsState, c) = WsState

-----------------------------------------------------------------------------
(* Rate-limit tiers of one client *)

\* the requests of the key that the tier itself let through and that the
\* script still counts at the current second
OwnInWindow(k, tier) ==
    LET lg == LogOf(k) IN
    Cardinality({j \in 1..Len(lg.allowedAt) :
                    /\ lg.by[j] = tier
                    /\ IntSec(lg.allowedAt[j]) > IntSec(now) - tier.window})

\* C34: a request is denied by a tier only when the requests that tier let
\* through for the client within the window already reach the tier's limit.
C34_TiersIndependent ==
    (/\ rlLast.op \in {"check", "request"}
     /\ rlLast.storeOk
     /\ rlLast.outcome # "error"
     /\ ~rlLast.allowed) =>
        OwnInWindow(rlLast.key, rlLast.tier) >= rlLast.tier.limit

-----------------------------------------------------------------------------
(* Logout with the session id of another user *)

\* user 1 logs in; a session exists for user 4; user 1 logs out with any
\* session id
NextLogoutOther ==
    \/ RedisInitialize
    \/ RedisGoesDown
    \/ RedisComesBack
    \/ \E password \in {"pw1", "bad"} : FlowLogin("a@x", password)
    \/ \E data \in SessionMeta : CreateSession(4, data, 0)
    \/ \E tok \in AccessToks, sid \in SessionIds \cup {0}, dbOk \in BOOLEAN :
          Logout(tok, sid, dbOk)

SpecLogoutOther == InitFlow /\ [][NextLogoutOther]_vars

\* C35: after a logout that names a session created for a user other than
\* the caller, that session is still stored with the other user's record.
C35_LogoutOwnSessionOnly ==
    (/\ flowLast.op = "logout"
     /\ flowLast.sid \in DOMAIN created
     /\ created[flowLast.sid].user_id # flowLast.user) =>
        /\ flowLast.sid \in DOMAIN sessions
        /\ sessions[flowLast.sid].data
              = [SessionData(created[flowLast.sid].user_id, created[flowLast.sid].meta)
                    EXCEPT !.created_at = sessions[flowLast.sid].data.created_at]

-----------------------------------------------------------------------------
(* Reuse of a refresh token *)

\* C36: no refresh token is exchanged successfully at two different times.
C36_RefreshSingleUse ==
    \A r1, r2 \in refreshedAt : r1.tok = r2.tok => r1.at = r2.at

-----------------------------------------------------------------------------
(* Expiry of a session after update_session *)

\* C37: after a successful update_session the record holds the supplied keys
\* and otherwise what was read, and the expiry of the session is the one it
\* had before the write.
C37_UpdateKeepsExpiry ==
    (sessLast.op = "update" /\ sessLast.ok) =>
        /\ sessLast.merged
        /\ sessLast.expirySame

-----------------------------------------------------------------------------
(* Superusers acting on superuser accounts *)

AdmMaxRequests == 2

AdmMaxPending == 2

\* the administrative requests tried: the two endpoints behind
\* get_current_superuser, and update_user with a body that deactivates or demotes
AdmRequests ==
    { [kind |-> "deactivate_user"],
      [kind |-> "delete_user"],
      [kind |-> "update_user", user_data |-> [is_active |-> FALSE]],
      [kind |-> "update_user", user_data |-> [is_superuser |-> FALSE]] }

AdmTargets == {1, 3, 4}

\* get_current_superuser on the record get_current_user loaded
get_current_superuser(current_user) ==
    IF ~current_user.is_superuser
    THEN [status |-> 403, detail |-> "Not enough permissions"]
    ELSE [status |-> 200, detail |-> "ok"]

\* the dependencies of an administrative endpoint are resolved for an
\* authenticated, active caller: the caller's record is loaded here and the
\* handler body runs later with that loaded record
AdminBegin(caller, request, user_id) ==
    LET dep == IF request.kind = "update_user" THEN [status |-> 200, detail |-> "ok"]
               ELSE get_current_superuser(users[caller])
        req == [caller |-> caller, callerSuper |-> users[caller].is_superuser,
                request |-> request, user_id |-> user_id]
    IN  /\ admCount < AdmMaxRequests
        /\ Cardinality(admPending) < AdmMaxPending
        /\ caller \in DOMAIN users
        /\ users[caller].is_active
        /\ admCount' = admCount + 1
        /\ admPending' = IF dep.status = 200 THEN admPending \cup {req} ELSE admPending
        /\ admLast' = IF dep.status = 200 THEN NoAdm
                      ELSE [op |-> request.kind, caller |-> caller,
                            callerSuper |-> users[caller].is_superuser,
                            user_id |-> user_id, status |-> dep.status,
                            detail |-> dep.detail, same |-> TRUE]
        /\ UNCHANGED <<now, redis, users, tokVars, rateVars, loginVars, flowVars, sessVars,
                       wsVars, regs, regPending, regLast, updLast, updCount, pwVars>>

\* the response of deactivate_user and of delete_user, what is the word of
\* the 400 ("deactivate" or "delete")
admin_removes(current_user_id, user_id, what) ==
    IF user_id \notin DOMAIN users
    THEN [status |-> 404, detail |-> "User not found"]
    ELSE IF user_id = current_user_id
         THEN [status |-> 400, detail |-> "Cannot " \o what \o " your own account"]
    ELSE [status |-> 200, detail |-> "ok"]

\* the handler body of a pending administrative request
AdminFinish(req) ==
    LET kind == req.request.kind
        res  == IF kind = "update_user"
                THEN update_user_as(req.callerSuper, req.caller, req.user_id,
                                    req.request.user_data, TRUE)
                ELSE admin_removes(req.caller, req.user_id,
                                   IF kind = "delete_user" THEN "delete" ELSE "deactivate")
        data == IF kind = "update_user"
                THEN update_data(req.request.user_data, req.callerSuper)
                ELSE [is_active |-> FALSE]
        writes == res.status = 200 /\ DOMAIN data # {}
    IN  /\ req \in admPending
        /\ admPending' = admPending \ {req}
        /\ users' = IF ~writes THEN users
                    ELSE IF kind = "delete_user" THEN DropKey(users, req.user_id)
                    ELSE [users EXCEPT ![req.user_id] = UserUpdated(@, data)]
        /\ admLast' = [op |-> kind, caller |-> req.caller, callerSuper |-> req.callerSuper,
                       user_id |-> req.user_id, status |-> res.status,
                       detail |-> res.detail, same |-> users' = users]
        /\ UNCHANGED <<now, redis, tokVars, rateVars, loginVars, flowVars, sessVars,
                       wsVars, regs, regPending, regLast, updLast, updCount, admCount, pwVars>>

\* two active superusers: user 4 has promoted user 1
InitAdmin ==
    /\ InitStores
    /\ users = [InitUsers EXCEPT ![1].is_superuser = TRUE]
    /\ settings.feature_email_verification = FALSE

NextAdmin ==
    \/ \E caller \in UserIds, request \in AdmRequests, user_id \in AdmTargets :
          AdminBegin(caller, request, user_id)
    \/ \E req \in admPending : AdminFinish(req)

SpecAdmin == InitAdmin /\ [][NextAdmin]_vars

ActiveSuperusers == {u \in DOMAIN users : users[u].is_superuser /\ users[u].is_active}

\* C38: a superuser's request to deactivate, demote or delete their own
\* (existing) account is answered 400 and changes no record, and at least
\* one active superuser exists at all times.
C38_SuperuserRemains ==
    /\ (/\ admLast.op # "none"
        /\ admLast.callerSuper
        /\ admLast.user_id = admLast.caller
        /\ admLast.status # 404) =>
            /\ admLast.status = 400
            /\ admLast.same
    /\ ActiveSuperusers # {}

\* the part of C38 about a superuser's own account alone
C38_OwnAccountProtected ==
    (/\ admLast.op # "none"
     /\ admLast.callerSuper
     /\ admLast.user_id = admLast.caller
     /\ admLast.status # 404) =>
        /\ admLast.status = 400
        /\ admLast.same

-----------------------------------------------------------------------------
(* Authenticating after deactivation *)

\* POST /login, observed
DeactLogin(identifier, password) ==
    LET u == LoginUser(identifier)
        detail == login_detail(identifier, password, TRUE)
    IN  /\ \E sid \in SessionIds \cup {0} : LoginEffect(identifier, password, TRUE, sid)
        /\ flowLast' = [NoFlow EXCEPT
                          !.op = "login", !.ok = (detail = "ok"),
                          !.status = login_status(detail), !.detail = detail,
                          !.user = u, !.storeOk = StoreOk, !.dbOk = TRUE,
                          !.active = u # 0 /\ users[u].is_active,
                          !.pwValid = u # 0 /\ verify_password(password,
                                                               users[u].hashed_password)]
        /\ UNCHANGED <<wsVars, regVars, now, redis, blacklist, revoked, last, rateVars,
                       loginLast, settings, refreshedAt, loggedOut, sessVars>>

\* POST /refresh, observed
DeactRefresh(tok) ==
    /\ RefreshEffect(tok, TRUE, FlowMaxMinted)
    /\ flowLast' = FlowOutcome("refresh", tok, TRUE, refresh_token(tok, TRUE), 0)
    /\ UNCHANGED <<wsVars, regVars, now, redis, users, revoked, last, rateVars, loginVars,
                   loggedOut, sessVars>>

\* the authentication step of websocket_endpoint
DeactWsConnect(tok) ==
    /\ flowLast' = FlowOutcome("ws", tok, TRUE, authenticate_websocket(tok), 0)
    /\ UNCHANGED <<wsVars, regVars, now, redis, users, tokVars, rateVars, loginVars,
                   refreshedAt, loggedOut, sessVars>>

NextDeact ==
    \/ TickFlow
    \/ RedisInitialize
    \/ \E password \in {"pw1", "bad"} : DeactLogin("a@x", password)
    \/ \E tok \in MintedToks : DeactRefresh(tok)
    \/ \E tok \in AccessToks : Me(tok, TRUE)
    \/ \E tok \in AccessToks : DeactWsConnect(tok)
    \/ DeactivateUser(4, 1)

SpecDeact == InitFlow /\ [][NextDeact]_vars

\* the call was made for a deactivated user with credentials that were
\* otherwise good: the right password, or an unexpired token of the right type
ByDeactivated(r) ==
    /\ r.user # 0
    /\ ~r.active
    /\ r.op = "login" => r.pwValid
    /\ r.op = "refresh" => r.fresh /\ "refresh" \in r.issuedAs
    /\ r.op \in {"me", "ws"} => r.fresh /\ "access" \in r.issuedAs

\* C39: login, refresh, an access-protected endpoint and WebSocket connect
\* are all rejected when the user they are for is deactivated.
C39_DeactivationEverywhere ==
    (flowLast.op \in {"login", "refresh", "me", "ws"} /\ ByDeactivated(flowLast)) =>
        ~flowLast.ok

\* the three HTTP paths of C39 alone
C39_HttpPathsReject ==
    (flowLast.op \in {"login", "refresh", "me"} /\ ByDeactivated(flowLast)) =>
        ~flowLast.ok

\* a call of one of the three HTTP paths for a deactivated user was made
C39_HttpPathsTried ==
    flowLast.op \in {"login", "refresh", "me"} /\ ByDeactivated(flowLast)

-----------------------------------------------------------------------------
(* Reuse of a password-reset token *)

\* C40: a confirm_password_reset with a token that a confirm_password_reset
\* has already succeeded with, and that still verifies, is rejected and
\* leaves the stored credentials unchanged.
C40_ResetTokenSingleUse ==
    (/\ flowLast.op = "reset_confirm"
     /\ flowLast.usedBefore
     /\ flowLast.tokValid
     /\ flowLast.pwValid
     /\ flowLast.dbOk) =>
        /\ ~flowLast.ok
        /\ flowLast.credSame

====
